---- MODULE Spec2Model ----
(***************************************************************************)
(* Cancela_Estacionamento: the control loop of the five firmware revisions *)
(* (V1..V5) of the parking-gate controller, as one state machine.  The     *)
(* revision is fixed at start-up; every action is the code of loop() (or   *)
(* of one iteration of a blocking wait inside it) for that revision.       *)
(***************************************************************************)
EXTENDS Integers, Sequences, FiniteSets, TLC

VARIABLES
    rev,                    \* which sketch runs: "V1" .. "V5"
    pc,                     \* position of the single thread of control
    millis,                 \* the millisecond clock, unsigned 32 bit
    contador,               \* contagemVeiculos / contadorVeiculos / contadorVeiculosDia
    cancelaAberta,          \* cancelaAberta / estadoCancelaAberta
    atuadores,              \* levels of the LED pins and the pulse last written to the servo
    comandos,               \* the last two of abrirCancela / fecharCancela that returned
    tempoInicio,            \* start stamp of the running wait
    timeoutEntradaOcorrido, \* V4 flag
    timeoutSaidaOcorrido,   \* V4 flag
    eeprom,                 \* the 4 bytes at ENDERECO_CONTADOR (V2, V3, V4)
    ultimaDataReset,        \* ultimaDataReset / ultimaDataResetContador
    primeiraExecucao,       \* V2/V4 flag
    ultimoReset,            \* V1/V5: stamp of the last 24 h reset
    ultimoStatus,           \* stamp of the last idle status report
    ntpSinc,                \* the NTP client has received a time at least once
    bips,                   \* beeps of the last warning played
    jaAbriu,                \* V4 gerenciarModoManual local
    hoje,                   \* environment: the latest calendar day the clock has shown
    gravacao,               \* environment: "ok" when every EEPROM.commit() takes effect,
                            \* "falha" when the commits silently leave the cell as it was
    \* ---- observation (history) variables, never read by the program ----
    resultado,              \* outcome of the current / last transit
    contadorAdm,            \* counter sampled by the idle tick that admitted
    numTicket,              \* vehicle number printed on the last ticket
    numSucesso,             \* number printed on the last successful transit since the last reset
    numFalha,               \* number printed on the last transit if it failed, no reset since
    leituraE,               \* entry sensor level at the last poll
    leituraX,               \* exit sensor level at the last poll
    leituraB,               \* ticket button level sampled by the last call of loop()
    relato,                 \* the idle status report of the last call of loop(), with its samples
    leituraR,               \* V3: last sample of the ticket-retrieval sensor
    leituraM,               \* manual lever level at its last read (V4, V5)
    dataAtual,              \* the date the last reset check compared (V2, V3, V4)
    decorrido,              \* elapsed time computed by the last poll
    \* clock advance of the last sleep
    inicioEspera,           \* clock when the entry wait of the transit started
    esperas,                  \* wait-only steps taken so far in the run
    ciclos                  \* calls of loop() so far

vars == << rev, gravacao, relato, pc, millis, contador, cancelaAberta, atuadores, comandos, tempoInicio,
           timeoutEntradaOcorrido, timeoutSaidaOcorrido, eeprom, ultimaDataReset, primeiraExecucao, ultimoReset, ultimoStatus,
           ntpSinc, bips, jaAbriu, hoje, resultado, contadorAdm, numTicket,
           numSucesso, numFalha, leituraE, leituraX, leituraB, leituraR, leituraM,
           dataAtual, decorrido, inicioEspera, esperas, ciclos >>

---------------------------------------------------------------------------
(* Bounds of the exploration *)

MaxCiclos == 2      \* calls of loop() in one run
MaxEsperas == 2     \* steps of a run in which a wait loop only waits
MaxDia == 1         \* calendar days after the first one

---------------------------------------------------------------------------
(* Unsigned 32-bit arithmetic (unsigned int / unsigned long on the ESP32).  *)
(* A 32-bit value is the pair <<high 16 bits, low 16 bits>>, so that every  *)
(* 32-bit value, 4294967295 included, is kept with its real width.          *)

W16 == 65536

\* the 32-bit value of a number below 2^31
U32(n) == << n \div W16, n % W16 >>

Zero32 == U32(0)

UINT_MAX == << W16 - 1, W16 - 1 >>

\* a + b modulo 2^32
Soma32(a, b) ==
    LET l == a[2] + b[2]
        h == a[1] + b[1] + (l \div W16)
    IN  << h % W16, l % W16 >>

\* a - b modulo 2^32
Sub32(a, b) ==
    LET l == a[2] - b[2]
        h == a[1] - b[1] - (IF l < 0 THEN 1 ELSE 0)
    IN  << h % W16, l % W16 >>

\* a + n and a - n modulo 2^32, n a number below 2^31
Mais(a, n) == Soma32(a, U32(n))
Menos(a, n) == Sub32(a, U32(n))

\* the value is below 2^31
Cabe(a) == a[1] < (W16 \div 2)

\* the number a value below 2^31 stands for
Val(a) == a[1] * W16 + a[2]

\* unsigned comparison of a 32-bit value with a number below 2^31
MaiorQue(a, n) == ~Cabe(a) \/ Val(a) > n
MaiorOuIgual(a, n) == ~Cabe(a) \/ Val(a) >= n

\* unsigned comparison of two 32-bit values
Menor32(a, b) == a[1] < b[1] \/ (a[1] = b[1] /\ a[2] < b[2])

\* an elapsed time that does not borrow: 0 when the clock reads less than the stamp
DecorridoSemVolta(agora, inicio) ==
    IF Menor32(agora, inicio) THEN Zero32 ELSE Sub32(agora, inicio)

\* millis() - inicio, as the code computes it
Decorrido(agora, inicio) == Sub32(agora, inicio)

---------------------------------------------------------------------------
(* Program constants, one per revision where the sketches differ *)

\* V1
ATRASO_OPERACAO_CANCELA_MS == 500
ATRASO_IMPRESSAO_TICKET_MS == 1500
ATRASO_POS_SAIDA_MS == 2000
TIMEOUT_ENTRADA_MS == 30000
TIMEOUT_SAIDA_MS == 30000
INTERVALO_STATUS_MS == 5000
INTERVALO_RESET_CONTADOR_MS == 24 * 60 * 60 * 1000
DURACAO_ALERTA_SEGUNDOS == 5
INTERVALO_BEEP_BUZZER_MS == 500
\* V2
TIMEOUT_OPERACAO_V2 == 30000
DURACAO_IMPRESSAO_V2 == 3000
ESPERA_PARA_FECHAR == 2000
TEMPO_MOVIMENTO_CANCELA == 500
INTERVALO_MSG_STATUS_V2 == 5000
REPETICOES_AVISO_BUZZER == 5
DURACAO_BIP_BUZZER == 500
\* V3
TIMEOUT_OPERACAO_V3 == 30000
DURACAO_IMPRESSAO_V3 == 3000
INTERVALO_MENSAGEM_STATUS_V3 == 5000
DELAY_MOVIMENTO_CANCELA == 500
DELAY_POS_SAIDA == 2000
BEEP_AVISO_TIMEOUT == 5
DURACAO_BEEP == 200
\* V4
TIMEOUT_OPERACAO_V4 == 30000
DURACAO_EMISSAO_TICKET == 1500
ATRASO_FECHAMENTO == 2000
DURACAO_MOV_CANCELA == 500
INTERVALO_MSG_STATUS_V4 == 2000
QTD_AVISOS_SONOROS == 5
DURACAO_BEEP_BUZZER == 500
\* V5
INTERVALO_RESET_CONTADOR == 24 * 60 * 60 * 1000
TIMEOUT_PASSAGEM_VEICULO == 30000
DURACAO_SIMULACAO_IMPRESSAO == 3000
ATRASO_FECHAMENTO_APOS_SAIDA == 2000
INTERVALO_MENSAGEM_STATUS_V5 == 5000
DURACAO_AVISO_SONORO_S == 5
PERIODO_PISCA_BUZZER_MS == 500

Revisoes == {"V1", "V2", "V3", "V4", "V5"}

\* revisions that keep the counter in EEPROM and reset it on a date change
ComEEPROM == {"V2", "V3", "V4"}

\* revisions with the manual lever
ComModoManual == {"V4", "V5"}

\* budget of the entry-clear wait
TimeoutEntrada(r) ==
    CASE r = "V1" -> TIMEOUT_ENTRADA_MS
      [] r = "V2" -> TIMEOUT_OPERACAO_V2
      [] r = "V3" -> TIMEOUT_OPERACAO_V3
      [] r = "V4" -> TIMEOUT_OPERACAO_V4
      [] r = "V5" -> TIMEOUT_PASSAGEM_VEICULO

\* budget of the exit-detect wait
TimeoutSaida(r) ==
    CASE r = "V1" -> TIMEOUT_SAIDA_MS
      [] r = "V2" -> TIMEOUT_OPERACAO_V2
      [] r = "V3" -> TIMEOUT_OPERACAO_V3
      [] r = "V4" -> TIMEOUT_OPERACAO_V4
      [] r = "V5" -> TIMEOUT_PASSAGEM_VEICULO

\* the delay(...) that ends one iteration of a transit wait loop
AtrasoPoll(r) ==
    CASE r = "V1" -> 50
      [] r = "V2" -> 50
      [] r = "V3" -> 10
      [] r = "V4" -> 10
      [] r = "V5" -> 100

\* the delay(...) that ends one iteration of the manual-mode loop
AtrasoPollManual(r) == IF r = "V4" THEN 10 ELSE 100

\* time spent printing the ticket
TempoTicket(r) ==
    CASE r = "V1" -> ATRASO_IMPRESSAO_TICKET_MS + ATRASO_IMPRESSAO_TICKET_MS
      [] r = "V2" -> DURACAO_IMPRESSAO_V2
      [] r = "V3" -> (DURACAO_IMPRESSAO_V3 \div 2) + (DURACAO_IMPRESSAO_V3 \div 2)
      [] r = "V4" -> DURACAO_EMISSAO_TICKET + DURACAO_EMISSAO_TICKET
      [] r = "V5" -> (DURACAO_SIMULACAO_IMPRESSAO \div 2) + (DURACAO_SIMULACAO_IMPRESSAO \div 2)

\* the delay inside abrirCancela() / fecharCancela() (V5 has none)
TempoMovimento(r) ==
    CASE r = "V1" -> ATRASO_OPERACAO_CANCELA_MS
      [] r = "V2" -> TEMPO_MOVIMENTO_CANCELA
      [] r = "V3" -> DELAY_MOVIMENTO_CANCELA
      [] r = "V4" -> DURACAO_MOV_CANCELA
      [] r = "V5" -> 0

\* the settle delay between exit detection and close
TempoPosSaida(r) ==
    CASE r = "V1" -> ATRASO_POS_SAIDA_MS
      [] r = "V2" -> ESPERA_PARA_FECHAR
      [] r = "V3" -> DELAY_POS_SAIDA
      [] r = "V4" -> ATRASO_FECHAMENTO
      [] r = "V5" -> ATRASO_FECHAMENTO_APOS_SAIDA

\* iterations of the warning loop
NumBips(r) ==
    CASE r = "V1" -> DURACAO_ALERTA_SEGUNDOS
      [] r = "V2" -> REPETICOES_AVISO_BUZZER
      [] r = "V3" -> BEEP_AVISO_TIMEOUT
      [] r = "V4" -> QTD_AVISOS_SONOROS
      [] r = "V5" -> DURACAO_AVISO_SONORO_S * 2

\* duration of one iteration of the warning loop (buzzer on + buzzer off)
PeriodoBip(r) ==
    CASE r = "V1" -> (INTERVALO_BEEP_BUZZER_MS \div 2) + (INTERVALO_BEEP_BUZZER_MS \div 2)
      [] r = "V2" -> DURACAO_BIP_BUZZER + DURACAO_BIP_BUZZER
      [] r = "V3" -> DURACAO_BEEP + (1000 - DURACAO_BEEP)
      [] r = "V4" -> (DURACAO_BEEP_BUZZER \div 2) + (DURACAO_BEEP_BUZZER \div 2)
      [] r = "V5" -> (PERIODO_PISCA_BUZZER_MS \div 2) + (PERIODO_PISCA_BUZZER_MS \div 2)

\* interval between two idle status reports
IntervaloStatus(r) ==
    CASE r = "V1" -> INTERVALO_STATUS_MS
      [] r = "V2" -> INTERVALO_MSG_STATUS_V2
      [] r = "V3" -> INTERVALO_MENSAGEM_STATUS_V3
      [] r = "V4" -> INTERVALO_MSG_STATUS_V4
      [] r = "V5" -> INTERVALO_MENSAGEM_STATUS_V5

\* interval of the millis-based counter reset (V1, V5)
IntervaloReset(r) ==
    IF r = "V1" THEN INTERVALO_RESET_CONTADOR_MS ELSE INTERVALO_RESET_CONTADOR

\* a timeout test that fires one millisecond late
ExpirouTardio(r, d, limite) == MaiorQue(d, limite + 1)

\* a timeout test with a slack of 100 ms
ExpirouFrouxo(r, d, limite) == MaiorQue(d, limite + 100)

\* the timeout test of a transit wait: V1 tests >=, the others >
Expirou(r, d, limite) ==
    IF r = "V1" THEN MaiorOuIgual(d, limite) ELSE MaiorQue(d, limite)

\* a status timer that never expires
StatusVencidoNunca(r, d) == FALSE

\* the test of the idle status timer: V1 tests >=, the others >
StatusVencido(r, d) ==
    IF r = "V1" THEN MaiorOuIgual(d, IntervaloStatus(r)) ELSE MaiorQue(d, IntervaloStatus(r))

---------------------------------------------------------------------------
(* Dates: the sketches only compare date strings for equality, so a date   *)
(* is a token.  The strings the sketches can hold are the empty string,    *)
(* the compile date, the date of an NTP client that never received a time, *)
(* and the real calendar days PrimeiroDia, PrimeiroDia + 1, ...            *)
(* The formatted current date (V2 dataAtualFormatada, V4 dataAtual) is     *)
(* rewritten by the synchronisation at the head of every loop() before it  *)
(* is read, so it is a value of the tick and not a variable of the model.  *)

SemData == 0
DataCompilacao == 1
DataEpoca == 2
PrimeiroDia == 3

UltimoDia == PrimeiroDia + MaxDia

\* "no number yet" in the observation variables
Nenhum == << 0 - 1, 0 - 1 >>

\* sincronizarRelogio (V2) / sincronizarDataHora (V4): the date they format
DataSinc(wifi, ntpOk, dia) == IF wifi /\ ntpOk THEN dia ELSE DataCompilacao

\* obterDataFormatada (V3)
obterDataFormatada(wifi, sinc, dia) ==
    IF ~wifi THEN DataCompilacao ELSE IF sinc THEN dia ELSE DataEpoca

\* values the 4 EEPROM bytes can hold at power-up (erased flash reads all ones)
ValoresEEPROM == {Zero32, UINT_MAX}

\* network inputs of one tick: <<Wi-Fi connected, NTP update succeeded>>.  V2 and
\* V4 format the compile date whenever the update fails, connected or not
EntradasRede(r) ==
    CASE r = "V3" -> {<<FALSE, FALSE>>, <<TRUE, FALSE>>, <<TRUE, TRUE>>}
      [] r \in {"V2", "V4"} -> {<<FALSE, FALSE>>, <<TRUE, TRUE>>}
      [] OTHER -> {<<FALSE, FALSE>>}

\* network inputs of setup(): V5 connects too, though its loop() never asks the time
EntradasSetup(r) ==
    IF r = "V5" THEN {<<FALSE, FALSE>>, <<TRUE, FALSE>>, <<TRUE, TRUE>>}
    ELSE EntradasRede(r)

\* the calendar never runs backwards: a tick that gets the real date gets the
\* day last shown or a later one
DiasPossiveis(r) == IF r \in ComEEPROM THEN hoje .. UltimoDia ELSE {hoje}

\* a reset check that never sees a new date
MudouDataNunca(r, d, u) == FALSE

\* a reset check that sees a new date on every call
MudouDataSempre(r, d, u) == TRUE

\* the test of the date-based reset: d is the date of this tick, u the stored
\* date of the last reset; V3 also asks for a stored date
MudouData(r, d, u) == IF r = "V3" THEN d # u /\ u # SemData ELSE d # u

\* a 24 h check that never fires
Passou24hNunca(r, agora, ultimo) == FALSE

\* a 24 h test that wants more than 24 h
Passou24hEstrito(r, agora, ultimo) == MaiorQue(Decorrido(agora, ultimo), IntervaloReset(r))

\* the test of the millis-based reset (V1, V5)
Passou24h(r, agora, ultimo) == MaiorOuIgual(Decorrido(agora, ultimo), IntervaloReset(r))

\* The head of loop(): clock synchronisation and the daily reset of the
\* counter.  Yields the values the rest of the tick works with.
InicioLoop(r, wifi, ntpOk, dia) ==
    IF r \in {"V2", "V4"} THEN
        LET d == DataSinc(wifi, ntpOk, dia)
            u == IF primeiraExecucao THEN d ELSE ultimaDataReset
            rst == MudouData(r, d, u)
        IN  [cont |-> IF rst THEN Zero32 ELSE contador,
             ee |-> IF rst THEN Zero32 ELSE eeprom,
             ult |-> IF rst THEN d ELSE u,
             prim |-> FALSE, sinc |-> ntpSinc,
             ur |-> ultimoReset, fez |-> rst, data |-> d]
    ELSE IF r = "V3" THEN
        LET s == ntpSinc \/ (wifi /\ ntpOk)
            d == obterDataFormatada(wifi, s, dia)
            u == IF ultimaDataReset = SemData THEN d ELSE ultimaDataReset
            rst == MudouData(r, d, u)
        IN  [cont |-> IF rst THEN Zero32 ELSE contador,
             ee |-> IF rst THEN Zero32 ELSE eeprom,
             ult |-> IF rst THEN d ELSE u,
             prim |-> primeiraExecucao,
             sinc |-> s, ur |-> ultimoReset, fez |-> rst, data |-> d]
    ELSE
        LET rst == Passou24h(r, millis, ultimoReset)
        IN  [cont |-> IF rst THEN Zero32 ELSE contador,
             ee |-> eeprom, ult |-> ultimaDataReset,
             prim |-> primeiraExecucao,
             sinc |-> ntpSinc,
             ur |-> IF rst THEN millis ELSE ultimoReset, fez |-> rst,
             data |-> dataAtual]

---------------------------------------------------------------------------
(* Initial state: the globals as the sketch initialises them, before setup() *)

\* pulse widths written to the servo, in microseconds; 0 before any write
SemPulso == 0
SERVO_POSICAO_ABERTA == 500
SERVO_POSICAO_FECHADA == 1495

\* V1 and V2 drive no servo: the LEDs alone stand for the gate
TemServo(r) == r \in {"V3", "V4", "V5"}

\* the output pins at reset: all low, nothing written to the servo
PinosNoReset ==
    [amarelo |-> FALSE, verde |-> FALSE, vermelho |-> FALSE, servo |-> SemPulso]

\* a fecharCancela that inverts the red LED instead of lighting it
fecharCancelaAlterna(r, a) ==
    [a EXCEPT !.amarelo = FALSE, !.verde = FALSE, !.vermelho = ~@,
              !.servo = IF TemServo(r) THEN SERVO_POSICAO_FECHADA ELSE @]

\* fecharCancela(): status LED low, green low, red high, servo to the closed
\* position
fecharCancela(r, a) ==
    [a EXCEPT !.amarelo = FALSE, !.verde = FALSE, !.vermelho = TRUE,
              !.servo = IF TemServo(r) THEN SERVO_POSICAO_FECHADA ELSE @]

\* an abrirCancela that leaves the red LED as it is
abrirCancelaSemVermelho(r, a) ==
    [a EXCEPT !.amarelo = IF r \in {"V2", "V3"} THEN @ ELSE FALSE,
              !.verde = TRUE,
              !.servo = IF TemServo(r) THEN SERVO_POSICAO_ABERTA ELSE @]

\* abrirCancela(): red low, green high, servo to the open position; V1, V4 and
\* V5 also put the status LED low
abrirCancela(r, a) ==
    [a EXCEPT !.amarelo = IF r \in {"V2", "V3"} THEN @ ELSE FALSE,
              !.vermelho = FALSE, !.verde = TRUE,
              !.servo = IF TemServo(r) THEN SERVO_POSICAO_ABERTA ELSE @]

\* the pins after setup(): V1, V3 and V4 call fecharCancela; V2 and V5 write the
\* LEDs (V5 also the servo) themselves
PinosAposSetup(r, a) ==
    IF r \in {"V1", "V3", "V4"} THEN fecharCancela(r, a)
    ELSE [a EXCEPT !.amarelo = FALSE, !.verde = FALSE, !.vermelho = TRUE,
                   !.servo = IF r = "V5" THEN SERVO_POSICAO_FECHADA ELSE @]

\* the pins after the ticket has been printed: the status LED is lit for the
\* printing and put out at its end
PinosAposTicket(a) == [a EXCEPT !.amarelo = FALSE]

\* the record of the commands after command c has returned
Comandado(c) == << comandos[2], c >>

\* no report: the call of loop() printed no idle status
SemRelato == << "nenhum", FALSE, FALSE >>

\* the globals of the sketch of the chosen revision
Estado0 ==
    /\ pc = "setup"
    /\ millis = Zero32
    /\ contador = Zero32
    /\ cancelaAberta = FALSE
    /\ atuadores = PinosNoReset
    /\ comandos = << "nenhum", "nenhum" >>
    /\ tempoInicio = Zero32
    /\ timeoutEntradaOcorrido = FALSE
    /\ timeoutSaidaOcorrido = FALSE
    /\ ultimaDataReset = SemData
    /\ primeiraExecucao = TRUE
    /\ ultimoReset = Zero32
    /\ ultimoStatus = Zero32
    /\ ntpSinc = FALSE
    /\ bips = 0
    /\ jaAbriu = FALSE
    /\ hoje = PrimeiroDia
    /\ resultado = "nenhum"
    /\ contadorAdm = Zero32
    /\ numTicket = Nenhum
    /\ numSucesso = Nenhum
    /\ numFalha = Nenhum
    /\ leituraE = FALSE
    /\ leituraX = FALSE
    /\ leituraB = FALSE
    /\ leituraR = FALSE
    /\ relato = SemRelato
    /\ leituraM = FALSE
    /\ dataAtual = SemData
    /\ decorrido = Zero32
    /\ inicioEspera = Zero32
    /\ esperas = 0
    /\ ciclos = 0

\* power-up of any of the five sketches, on a storage whose writes take effect
Init ==
    /\ rev \in Revisoes
    /\ gravacao = "ok"
    /\ eeprom \in (IF rev \in ComEEPROM THEN ValoresEEPROM ELSE {Zero32})
    /\ Estado0

\* power-up of a sketch with EEPROM on a storage whose writes silently fail,
\* the cell holding 0
InitFalha ==
    /\ rev \in ComEEPROM
    /\ gravacao = "falha"
    /\ eeprom = Zero32
    /\ Estado0

\* power-up after a power cycle: the cell holds the count an earlier session
\* saved on a calendar day before the one of this power-up
InitReligado ==
    /\ rev \in ComEEPROM
    /\ gravacao = "ok"
    /\ eeprom = U32(1)
    /\ Estado0

\* the cell after EEPROM.put(ENDERECO_CONTADOR, v); EEPROM.commit(): the sketches
\* ignore the result of commit(), so a failed write leaves the old value, unseen
Gravado(ee, v) == IF gravacao = "ok" THEN {v} ELSE {ee}

\* variables no action outside a transit touches
semTransito == << tempoInicio, timeoutEntradaOcorrido, timeoutSaidaOcorrido,
                  bips, resultado, contadorAdm, numTicket, leituraE,
                  leituraX, decorrido, inicioEspera >>

\* the state of the waits, which loop() leaves alone outside a transit
semEspera == << tempoInicio, timeoutEntradaOcorrido, timeoutSaidaOcorrido,
                leituraE, leituraX, decorrido, inicioEspera >>

\* the record of the last transit (its outcome, the counter it was admitted with,
\* its ticket number, its beeps) describes the return to the main loop: the next
\* call of loop() starts from a clean record
NovoTick ==
    /\ resultado' = "nenhum"
    /\ contadorAdm' = Zero32
    /\ numTicket' = Nenhum
    /\ bips' = 0

\* time setup() spends waiting for the Wi-Fi.  Only V5 waits without limit
\* (delay(500) until connected): none, or so long that the ticket delay of the
\* first request crosses the 24 h reset boundary
DeltasSetup(r) == IF r = "V5" THEN {0, INTERVALO_RESET_CONTADOR - 1} ELSE {0}

\* setup(): load the counter, connect, first clock synchronisation, close the gate.
\* V4 reads the EEPROM into a name the sketch does not declare: the build either
\* binds it to the counter or to another object, so both outcomes are taken.
\* V5 waits for the Wi-Fi without limit: its setup() returns only when connected,
\* espera ms after it started waiting.
Setup(wifi, ntpOk, espera) ==
    /\ pc = "setup"
    /\ rev = "V5" => wifi
    /\ pc' = "idle"
    /\ cancelaAberta' = FALSE
    /\ atuadores' = PinosAposSetup(rev, atuadores)
    /\ comandos' = IF rev \in {"V1", "V3", "V4"} THEN Comandado("fechar") ELSE comandos
    /\ millis' = Mais(millis, espera
                        + (IF rev \in {"V1", "V3", "V4"} THEN TempoMovimento(rev) ELSE 0))
    /\ contador' \in (CASE rev \in {"V2", "V3"} -> {eeprom}
                        [] rev = "V4" -> {eeprom, contador}
                        [] OTHER -> {contador})
    /\ ntpSinc' = (rev = "V3" /\ wifi /\ ntpOk)
    /\ ultimaDataReset' =
          CASE rev \in {"V2", "V4"} -> DataSinc(wifi, ntpOk, hoje)
            [] rev = "V3" -> obterDataFormatada(wifi, wifi /\ ntpOk, hoje)
            [] OTHER -> ultimaDataReset
    /\ dataAtual' =
          CASE rev \in {"V2", "V4"} -> DataSinc(wifi, ntpOk, hoje)
            [] rev = "V3" -> obterDataFormatada(wifi, wifi /\ ntpOk, hoje)
            [] OTHER -> dataAtual
    /\ primeiraExecucao' = IF rev \in {"V2", "V4"} THEN FALSE ELSE primeiraExecucao
    /\ ultimoReset' = IF rev = "V1" THEN millis ELSE ultimoReset
    /\ UNCHANGED << rev, gravacao, relato, leituraR, eeprom, ultimoStatus, jaAbriu, hoje, numSucesso, numFalha,
                    leituraB, leituraM, esperas, ciclos >>
    /\ UNCHANGED semTransito

---------------------------------------------------------------------------
(* loop(): one call from the idle position *)

\* an admission test that does not look at the button
AdmiteSemBotao(r, e, b, aberta) == e

\* the admission test of loop(); V2 and V5 also read the gate flag
Admite(r, e, b, aberta) == e /\ b /\ (r \in {"V2", "V5"} => ~aberta)

\* variables of a transit the manual mode leaves alone; it reads neither the
\* sensors nor the button, so the samples of loop() end with its first iteration
semManual == << tempoInicio, timeoutEntradaOcorrido, timeoutSaidaOcorrido,
               bips, resultado, contadorAdm, numTicket, leituraX, decorrido,
               inicioEspera >>

\* levels the manual lever can read: V1, V2 and V3 have none
Alavanca(r) == IF r \in ComModoManual THEN BOOLEAN ELSE {FALSE}

\* a loop() that never looks at the lever
EntraManualNunca(r, m) == FALSE

\* the manual-mode test of loop(): the lever reads HIGH
EntraManual(r, m) == r \in ComModoManual /\ m

\* time one pass of loop() takes when nothing blocks (it holds no delay)
DeltasOcioso(r) ==
    {1, IntervaloStatus(r) + 1}
        \cup (IF r \in {"V1", "V5"} THEN {IntervaloReset(r)} ELSE {})

\* the levels the status report works with, given the levels e, b that loop()
\* sampled: V1's exibirStatusOcioso and V3's gerenciarStatusOcioso read the two
\* pins again (the same levels, or, with a vehicle waiting, the button pressed
\* by then); V2, V4 and V5 use the samples of loop()
AmostrasStatus(r, e, b) ==
    IF r \in {"V1", "V3"} /\ e /\ ~b THEN {<< e, b >>, << TRUE, TRUE >>}
    ELSE {<< e, b >>}

\* the message the status branch prints for the levels e, b: V1 to V4 end their
\* chain with a plain else, V5 with a third test and prints nothing otherwise
StatusDe(r, e, b) ==
    IF e /\ ~b THEN "veiculo"
    ELSE IF ~e /\ b THEN "botao"
    ELSE IF r = "V5" /\ e /\ b THEN "nenhum"
    ELSE "ocioso"

\* the idle status branch: is a report due on this pass
StatusDevido(r, aberta, agora) ==
    /\ r = "V2" => ~aberta
    /\ StatusVencido(r, Decorrido(agora, ultimoStatus))

\* the levels the status branch of this pass can work with: the pins are read
\* a second time only when the report is due
AmostrasDoPasso(e, b) ==
    IF StatusDevido(rev, cancelaAberta, millis)
    THEN AmostrasStatus(rev, e, b) ELSE {<< e, b >>}

\* loop() when no request is admitted and (V4, V5) the lever reads off:
\* reset check, status report
LoopOcioso(e, b, m, rede, dia, delta) ==
    /\ pc = "idle"
    /\ ciclos < MaxCiclos
    /\ ~EntraManual(rev, m)
    /\ ~Admite(rev, e, b, cancelaAberta)
    /\ LET p == InicioLoop(rev, rede[1], rede[2], dia)
       IN  /\ contador' = p.cont
           /\ eeprom' \in Gravado(eeprom, p.ee)
           /\ ultimaDataReset' = p.ult
           /\ primeiraExecucao' = p.prim
           /\ ntpSinc' = p.sinc
           /\ ultimoReset' = p.ur
           /\ dataAtual' = p.data
           /\ hoje' = IF p.data >= PrimeiroDia THEN dia ELSE hoje
           /\ numSucesso' = IF p.fez THEN Nenhum ELSE numSucesso
           /\ numFalha' = IF p.fez THEN Nenhum ELSE numFalha
    /\ ultimoStatus' = IF StatusDevido(rev, cancelaAberta, millis)
                       THEN millis ELSE ultimoStatus
    /\ \E st \in AmostrasDoPasso(e, b) :
          relato' = IF StatusDevido(rev, cancelaAberta, millis)
                    THEN << StatusDe(rev, st[1], st[2]), st[1], st[2] >>
                    ELSE SemRelato
    /\ millis' = Mais(millis, delta)
    /\ ciclos' = ciclos + 1
    /\ leituraE' = e
    /\ leituraB' = b
    /\ leituraM' = m
    /\ NovoTick
    /\ UNCHANGED << rev, gravacao, leituraR, pc, cancelaAberta, atuadores, comandos, jaAbriu, esperas >>
    /\ UNCHANGED << tempoInicio, timeoutEntradaOcorrido, timeoutSaidaOcorrido,
                    leituraX, decorrido, inicioEspera >>

\* loop() with the lever on: V4 runs the reset check first and enters
\* gerenciarModoManual; V5 tests the lever before anything else and
\* operarModoManual opens the gate at once
LoopModoManual(e, b, m, rede, dia) ==
    /\ pc = "idle"
    /\ ciclos < MaxCiclos
    /\ EntraManual(rev, m)
    /\ LET p == IF rev = "V4" THEN InicioLoop(rev, rede[1], rede[2], dia)
                ELSE [cont |-> contador, ee |-> eeprom, ult |-> ultimaDataReset,
                      prim |-> primeiraExecucao,
                      sinc |-> ntpSinc, ur |-> ultimoReset, fez |-> FALSE,
                      data |-> dataAtual]
       IN  /\ contador' = p.cont
           /\ eeprom' \in Gravado(eeprom, p.ee)
           /\ ultimaDataReset' = p.ult
           /\ primeiraExecucao' = p.prim
           /\ ntpSinc' = p.sinc
           /\ ultimoReset' = p.ur
           /\ dataAtual' = p.data
           /\ hoje' = IF p.data >= PrimeiroDia THEN dia ELSE hoje
           /\ numSucesso' = IF p.fez THEN Nenhum ELSE numSucesso
           /\ numFalha' = IF p.fez THEN Nenhum ELSE numFalha
    /\ pc' = "manual"
    /\ jaAbriu' = FALSE
    /\ cancelaAberta' = IF rev = "V5" THEN TRUE ELSE cancelaAberta
    /\ atuadores' = IF rev = "V5" THEN abrirCancela(rev, atuadores) ELSE atuadores
    /\ comandos' = IF rev = "V5" THEN Comandado("abrir") ELSE comandos
    /\ ciclos' = ciclos + 1
    /\ leituraE' = e
    /\ leituraB' = b
    /\ leituraM' = m
    /\ NovoTick
    /\ relato' = SemRelato
    /\ UNCHANGED << rev, gravacao, leituraR, millis, ultimoStatus, esperas >>
    /\ UNCHANGED << tempoInicio, timeoutEntradaOcorrido, timeoutSaidaOcorrido,
                    leituraX, decorrido, inicioEspera >>

\* the counter after the ticket has been printed: V4's emitirTicket increments it
ContadorAposTicket(r, c) == IF r = "V4" THEN Mais(c, 1) ELSE c

\* the number emitirTicket / simularImpressaoTicket prints, given the counter
\* the tick works with: V4 prints the incremented counter, the others counter + 1
NumeroImpresso(r, c) == IF r = "V4" THEN ContadorAposTicket(r, c) ELSE Mais(c, 1)

\* loop() admitting a request (V4, V5: the lever reads off): reset check, ticket,
\* and (except V3, which first waits for the ticket to be taken) abrirCancela and
\* the start of the entry wait
LoopAdmite(e, b, m, rede, dia) ==
    /\ pc = "idle"
    /\ ciclos < MaxCiclos
    /\ ~EntraManual(rev, m)
    /\ LET p == InicioLoop(rev, rede[1], rede[2], dia)
           fim == Mais(millis, TempoTicket(rev)
                        + (IF rev = "V3" THEN 0 ELSE TempoMovimento(rev)))
       IN  /\ Admite(rev, e, b, cancelaAberta)
           /\ contadorAdm' = p.cont
           /\ numTicket' = NumeroImpresso(rev, p.cont)
           /\ contador' = ContadorAposTicket(rev, p.cont)
           /\ eeprom' \in Gravado(eeprom, p.ee)
           /\ ultimaDataReset' = p.ult
           /\ primeiraExecucao' = p.prim
           /\ ntpSinc' = p.sinc
           /\ ultimoReset' = p.ur
           /\ dataAtual' = p.data
           /\ hoje' = IF p.data >= PrimeiroDia THEN dia ELSE hoje
           /\ numSucesso' = IF p.fez THEN Nenhum ELSE numSucesso
           /\ numFalha' = IF p.fez THEN Nenhum ELSE numFalha
           /\ millis' = fim
           /\ tempoInicio' = fim
           /\ inicioEspera' = fim
    /\ pc' = IF rev = "V3" THEN "retirada" ELSE "entrada"
    /\ cancelaAberta' = IF rev = "V3" THEN cancelaAberta ELSE TRUE
    /\ atuadores' = IF rev = "V3" THEN PinosAposTicket(atuadores)
                    ELSE abrirCancela(rev, PinosAposTicket(atuadores))
    /\ comandos' = IF rev = "V3" THEN comandos ELSE Comandado("abrir")
    /\ timeoutEntradaOcorrido' = FALSE
    /\ resultado' = "pendente"
    /\ leituraE' = e
    /\ leituraB' = b
    /\ leituraM' = m
    /\ leituraX' = FALSE
    /\ decorrido' = Zero32
    /\ bips' = 0
    /\ ciclos' = ciclos + 1
    /\ relato' = SemRelato
    /\ UNCHANGED << rev, gravacao, leituraR, timeoutSaidaOcorrido, ultimoStatus, jaAbriu, esperas >>

---------------------------------------------------------------------------
(* The blocking waits of a transit.  One action is one iteration of the    *)
(* wait loop, or a run of iterations that all read the same levels and do  *)
(* not time out.  delay(d) suspends for at least d ms, so the next poll is *)
(* at least d ms after this one: the clock advance of a wait-only step is  *)
(* what brings the next poll to the edge of the budget (one ms before it,  *)
(* on it, one ms after it), or d when the edge is less than d ms away.     *)

DeltasEspera(r, dec, limite) ==
    LET d == AtrasoPoll(r)
        el == Val(dec)
        saltos == {x - el : x \in {y \in {limite - 1, limite, limite + 1} : y - el >= d}}
    IN  IF saltos = {} THEN {d} ELSE saltos

\* V3 aguardarRetiradaTicket: one iteration, or as many as fill a transit budget
DeltasRetirada == {10, TIMEOUT_OPERACAO_V3}

\* an entry wait that gives up when the button sampled by loop() reads pressed
DecisaoEntradaComBotao(r, e, exp) ==
    IF leituraB THEN "timeout_entrada" ELSE IF ~e THEN "liberou" ELSE "aguarda"

\* an entry wait that lets the transit on whatever the entry sensor reads
DecisaoEntradaLivre(r, e, exp) == "liberou"

\* what one poll of the entry-clear wait decides.  V2 tests the deadline before it
\* reads the sensor; the others read the sensor in the loop condition first.
DecisaoEntrada(r, e, exp) ==
    IF r = "V2"
    THEN (IF exp THEN "timeout_entrada" ELSE IF ~e THEN "liberou" ELSE "aguarda")
    ELSE (IF ~e THEN "liberou" ELSE IF exp THEN "timeout_entrada" ELSE "aguarda")

\* what one poll of the exit-detect wait decides, in the order each sketch tests
DecisaoSaida(r, e, x, exp) ==
    CASE r = "V2" ->
            (IF exp THEN "timeout_saida" ELSE IF e THEN "fraude"
             ELSE IF x THEN "sucesso" ELSE "aguarda")
      [] r = "V4" ->
            (IF x THEN "sucesso" ELSE IF exp THEN "timeout_saida"
             ELSE IF e THEN "fraude" ELSE "aguarda")
      [] OTHER ->
            (IF x THEN "sucesso" ELSE IF e THEN "fraude"
             ELSE IF exp THEN "timeout_saida" ELSE "aguarda")

\* a loop() tail that never counts
ContadorFinalNuncaConta(r, c, falhou) == c

\* a loop() tail that counts every transit, failed ones too
ContadorFinalSempreConta(r, c, falhou) == IF r = "V4" THEN c ELSE Mais(c, 1)

\* a loop() tail that reads the counter back from the EEPROM after a failed transit
ContadorFinalDaEEPROM(r, c, falhou) ==
    IF falhou THEN eeprom ELSE IF r = "V4" THEN c ELSE Mais(c, 1)

\* the counter when loop() is done with the transit.  V4 took the increment with
\* the ticket and takes it back on failure when the counter is above zero; the
\* others increment on success.
ContadorFinal(r, c, falhou) ==
    IF r = "V4"
    THEN (IF falhou THEN (IF c # Zero32 THEN Menos(c, 1) ELSE c) ELSE c)
    ELSE (IF falhou THEN c ELSE Mais(c, 1))

\* the EEPROM cell when loop() is done with the transit: written on success only
EEPROMFinal(r, ee, c, falhou) == IF r \in ComEEPROM /\ ~falhou THEN c ELSE ee

\* a tail of loop() that leaves the two flags as the waits handed them over
ConcluiSemLimpar(tE, tS, agora) ==
    LET falhou == tE \/ tS
        c == ContadorFinal(rev, contador, falhou)
    IN  /\ contador' = c
        /\ eeprom' \in Gravado(eeprom, EEPROMFinal(rev, eeprom, c, falhou))
        /\ timeoutEntradaOcorrido' = tE
        /\ timeoutSaidaOcorrido' = tS
        /\ ultimoStatus' = IF rev = "V1" THEN agora ELSE ultimoStatus
        /\ numSucesso' = IF falhou THEN numSucesso ELSE numTicket
        /\ numFalha' = IF falhou THEN numTicket ELSE Nenhum
        /\ pc' = "idle"
        /\ tempoInicio' = Zero32
        /\ inicioEspera' = Zero32
        /\ decorrido' = Zero32
        /\ leituraE' = FALSE
        /\ leituraX' = FALSE
        /\ leituraB' = FALSE

\* the tail of loop() after the waits returned: tE / tS say whether the entry
\* wait / the exit wait reported failure (V4: the two global flags)
Conclui(tE, tS, agora) ==
    LET falhou == tE \/ tS
        c == ContadorFinal(rev, contador, falhou)
    IN  /\ contador' = c
        /\ eeprom' \in Gravado(eeprom, EEPROMFinal(rev, eeprom, c, falhou))
        /\ timeoutEntradaOcorrido' = FALSE
        /\ timeoutSaidaOcorrido' = FALSE
        /\ ultimoStatus' = IF rev = "V1" THEN agora ELSE ultimoStatus
        /\ numSucesso' = IF falhou THEN numSucesso ELSE numTicket
        /\ numFalha' = IF falhou THEN numTicket ELSE Nenhum
        /\ pc' = "idle"
        \* the locals of the waits are gone with their frames
        /\ tempoInicio' = Zero32
        /\ inicioEspera' = Zero32
        /\ decorrido' = Zero32
        /\ leituraE' = FALSE
        /\ leituraX' = FALSE
        /\ leituraB' = FALSE

\* variables the transit actions never touch
foraTransito == << rev, gravacao, relato, ultimaDataReset, primeiraExecucao, ultimoReset,
                   ntpSinc, jaAbriu, hoje, contadorAdm, numTicket, leituraM,
                   dataAtual, ciclos >>

\* a wait for the ticket that ends whatever the retrieval sensor reads
TicketRetiradoSempre(t) == TRUE

\* the exit test of aguardarRetiradaTicket: the retrieval sensor reads LOW
TicketRetirado(t) == ~t

\* V3: the retrieval sensor reads t, the ticket is still in the slot
RetiradaAguarda(t, delta) ==
    /\ pc = "retirada"
    /\ esperas < MaxEsperas
    /\ ~TicketRetirado(t)
    /\ leituraR' = t
    /\ millis' = Mais(millis, delta)
    /\ esperas' = esperas + 1
    /\ UNCHANGED << pc, contador, cancelaAberta, atuadores, comandos, tempoInicio, timeoutEntradaOcorrido,
                    timeoutSaidaOcorrido, eeprom, ultimoStatus, bips, resultado,
                    numSucesso, numFalha, leituraE, leituraX, decorrido, inicioEspera >>
    /\ UNCHANGED << foraTransito, leituraB >>

\* V3: the retrieval sensor reads t, the ticket was taken: abrirCancela and the
\* start of the entry wait
RetiradaFeita(t) ==
    /\ pc = "retirada"
    /\ TicketRetirado(t)
    /\ leituraR' = t
    /\ LET fim == Mais(millis, TempoMovimento(rev))
       IN  /\ millis' = fim
           /\ tempoInicio' = fim
           /\ inicioEspera' = fim
    /\ cancelaAberta' = TRUE
    /\ atuadores' = abrirCancela(rev, atuadores)
    /\ comandos' = Comandado("abrir")
    /\ pc' = "entrada"
    /\ decorrido' = Zero32
    /\ UNCHANGED << contador, timeoutEntradaOcorrido, timeoutSaidaOcorrido, eeprom,
                    ultimoStatus, bips, resultado, numSucesso, numFalha, leituraE,
                    leituraX, esperas >>
    /\ UNCHANGED << foraTransito, leituraB >>

\* entry wait: the sensor reads clear.  V2 sets passouPelaEntrada and sleeps, keeping
\* its single stamp; the others return and the exit wait takes a new stamp.
EntradaLiberada(e) ==
    /\ pc = "entrada"
    /\ LET el == Decorrido(millis, tempoInicio)
       IN  /\ DecisaoEntrada(rev, e, Expirou(rev, el, TimeoutEntrada(rev))) = "liberou"
           /\ decorrido' = el
           /\ IF rev = "V2"
              THEN /\ millis' = Mais(millis, AtrasoPoll(rev))
                   /\ tempoInicio' = tempoInicio
              ELSE /\ millis' = millis
                   /\ tempoInicio' = millis
    /\ pc' = "saida"
    /\ leituraE' = e
    /\ timeoutSaidaOcorrido' = FALSE
    /\ UNCHANGED << contador, cancelaAberta, atuadores, comandos, timeoutEntradaOcorrido, eeprom,
                    ultimoStatus, bips, resultado, numSucesso, numFalha, leituraX,
                    inicioEspera, esperas >>
    /\ UNCHANGED << foraTransito, leituraB, leituraR >>

\* entry wait: the budget is spent: the warning starts
EntradaTimeout(e) ==
    /\ pc = "entrada"
    /\ LET el == Decorrido(millis, tempoInicio)
       IN  /\ DecisaoEntrada(rev, e, Expirou(rev, el, TimeoutEntrada(rev))) = "timeout_entrada"
           /\ decorrido' = el
    /\ pc' = "aviso_entrada"
    /\ bips' = 0
    /\ resultado' = "timeout_entrada"
    /\ leituraE' = e
    /\ UNCHANGED << millis, contador, cancelaAberta, atuadores, comandos, tempoInicio, timeoutEntradaOcorrido,
                    timeoutSaidaOcorrido, eeprom, ultimoStatus, numSucesso, numFalha,
                    leituraX, inicioEspera, esperas >>
    /\ UNCHANGED << foraTransito, leituraB, leituraR >>

\* entry wait: the vehicle is still on the sensor and the budget is not spent
EntradaAguarda(e) ==
    /\ pc = "entrada"
    /\ esperas < MaxEsperas
    /\ LET el == Decorrido(millis, tempoInicio)
       IN  /\ DecisaoEntrada(rev, e, Expirou(rev, el, TimeoutEntrada(rev))) = "aguarda"
           /\ decorrido' = el
           /\ \E delta \in DeltasEspera(rev, el, TimeoutEntrada(rev)) :
                 /\ millis' = Mais(millis, delta)
    /\ esperas' = esperas + 1
    /\ leituraE' = e
    /\ UNCHANGED << pc, contador, cancelaAberta, atuadores, comandos, tempoInicio, timeoutEntradaOcorrido,
                    timeoutSaidaOcorrido, eeprom, ultimoStatus, bips, resultado,
                    numSucesso, numFalha, leituraX, inicioEspera >>
    /\ UNCHANGED << foraTransito, leituraB, leituraR >>

\* exit wait: the exit sensor decides the transit: the settle delay starts
SaidaDetectada(e, x) ==
    /\ pc = "saida"
    /\ LET el == Decorrido(millis, tempoInicio)
       IN  /\ DecisaoSaida(rev, e, x, Expirou(rev, el, TimeoutSaida(rev))) = "sucesso"
           /\ decorrido' = el
    /\ pc' = "pos_saida"
    /\ resultado' = "sucesso"
    /\ leituraE' = e
    /\ leituraX' = x
    /\ UNCHANGED << millis, contador, cancelaAberta, atuadores, comandos, tempoInicio, timeoutEntradaOcorrido,
                    timeoutSaidaOcorrido, eeprom, ultimoStatus, bips, numSucesso,
                    numFalha, inicioEspera, esperas >>
    /\ UNCHANGED << foraTransito, leituraB, leituraR >>

\* exit wait: a vehicle is on the entry sensor: the wait goes to fecharCancela
\* at once, without a warning
SaidaFraude(e, x) ==
    /\ pc = "saida"
    /\ LET el == Decorrido(millis, tempoInicio)
       IN  /\ DecisaoSaida(rev, e, x, Expirou(rev, el, TimeoutSaida(rev))) = "fraude"
           /\ decorrido' = el
    /\ pc' = "fraude"
    /\ resultado' = "fraude"
    /\ leituraE' = e
    /\ leituraX' = x
    /\ UNCHANGED << millis, contador, cancelaAberta, atuadores, comandos, tempoInicio, timeoutEntradaOcorrido,
                    timeoutSaidaOcorrido, eeprom, ultimoStatus, bips, numSucesso,
                    numFalha, inicioEspera, esperas >>
    /\ UNCHANGED << foraTransito, leituraB, leituraR >>

\* a fraud path that calls fecharCancela twice
FechaAposFraudeDuasVezes ==
    /\ pc = "fraude"
    /\ LET fim == Mais(millis, 2 * TempoMovimento(rev))
       IN  /\ millis' = fim
           /\ Conclui(timeoutEntradaOcorrido, TRUE, fim)
    /\ cancelaAberta' = FALSE
    /\ atuadores' = fecharCancela(rev, fecharCancela(rev, atuadores))
    /\ comandos' = << "fechar", "fechar" >>
    /\ UNCHANGED << resultado, bips, esperas >>
    /\ UNCHANGED << foraTransito, leituraR >>

\* fraud: fecharCancela, the wait reports failure and loop() finishes the transit
FechaAposFraude ==
    /\ pc = "fraude"
    /\ LET fim == Mais(millis, TempoMovimento(rev))
       IN  /\ millis' = fim
           /\ Conclui(timeoutEntradaOcorrido, TRUE, fim)
    /\ cancelaAberta' = FALSE
    /\ atuadores' = fecharCancela(rev, atuadores)
    /\ comandos' = Comandado("fechar")
    /\ UNCHANGED << resultado, bips, esperas >>
    /\ UNCHANGED << foraTransito, leituraR >>

\* exit wait: the budget is spent: the warning starts
SaidaTimeout(e, x) ==
    /\ pc = "saida"
    /\ LET el == Decorrido(millis, tempoInicio)
       IN  /\ DecisaoSaida(rev, e, x, Expirou(rev, el, TimeoutSaida(rev))) = "timeout_saida"
           /\ decorrido' = el
    /\ pc' = "aviso_saida"
    /\ bips' = 0
    /\ resultado' = "timeout_saida"
    /\ leituraE' = e
    /\ leituraX' = x
    /\ UNCHANGED << millis, contador, cancelaAberta, atuadores, comandos, tempoInicio, timeoutEntradaOcorrido,
                    timeoutSaidaOcorrido, eeprom, ultimoStatus, numSucesso, numFalha,
                    inicioEspera, esperas >>
    /\ UNCHANGED << foraTransito, leituraB, leituraR >>

\* exit wait: nothing seen and the budget is not spent
SaidaAguarda(e, x) ==
    /\ pc = "saida"
    /\ esperas < MaxEsperas
    /\ LET el == Decorrido(millis, tempoInicio)
       IN  /\ DecisaoSaida(rev, e, x, Expirou(rev, el, TimeoutSaida(rev))) = "aguarda"
           /\ decorrido' = el
           /\ \E delta \in DeltasEspera(rev, el, TimeoutSaida(rev)) :
                 /\ millis' = Mais(millis, delta)
    /\ esperas' = esperas + 1
    /\ leituraE' = e
    /\ leituraX' = x
    /\ UNCHANGED << pc, contador, cancelaAberta, atuadores, comandos, tempoInicio, timeoutEntradaOcorrido,
                    timeoutSaidaOcorrido, eeprom, ultimoStatus, bips, resultado,
                    numSucesso, numFalha, inicioEspera >>
    /\ UNCHANGED << foraTransito, leituraB, leituraR >>

\* a warning that returns to loop() without fecharCancela
AvisoSemFechar ==
    /\ pc \in {"aviso_entrada", "aviso_saida"}
    /\ bips' = NumBips(rev)
    /\ LET fim == Mais(millis, NumBips(rev) * PeriodoBip(rev))
       IN  /\ millis' = fim
           /\ IF pc = "aviso_entrada"
              THEN Conclui(TRUE, timeoutSaidaOcorrido, fim)
              ELSE Conclui(timeoutEntradaOcorrido, TRUE, fim)
    /\ UNCHANGED << cancelaAberta, atuadores, comandos, resultado, esperas >>
    /\ UNCHANGED << foraTransito, leituraR >>

\* the warning (every iteration of its loop: buzzer on, delay, buzzer off, delay),
\* then fecharCancela; the wait reports the timeout (V4 sets its flag; after an
\* entry timeout gerenciarSegurancaSaida returns at once and timeoutSaidaOcorrido
\* keeps its value) and loop() finishes the transit
AvisoEFecha ==
    /\ pc \in {"aviso_entrada", "aviso_saida"}
    /\ bips' = NumBips(rev)
    /\ LET fim == Mais(millis, NumBips(rev) * PeriodoBip(rev) + TempoMovimento(rev))
       IN  /\ millis' = fim
           /\ IF pc = "aviso_entrada"
              THEN Conclui(TRUE, timeoutSaidaOcorrido, fim)
              ELSE Conclui(timeoutEntradaOcorrido, TRUE, fim)
    /\ cancelaAberta' = FALSE
    /\ atuadores' = fecharCancela(rev, atuadores)
    /\ comandos' = Comandado("fechar")
    /\ UNCHANGED << resultado, esperas >>
    /\ UNCHANGED << foraTransito, leituraR >>

\* a settle delay that looks at the entry sensor again and turns the success
\* into a fraud
FechaAposSaidaRevendo ==
    /\ pc = "pos_saida"
    /\ LET fim == Mais(millis, TempoPosSaida(rev) + TempoMovimento(rev))
       IN  /\ millis' = fim
           /\ Conclui(timeoutEntradaOcorrido, TRUE, fim)
    /\ resultado' = "fraude"
    /\ cancelaAberta' = FALSE
    /\ atuadores' = fecharCancela(rev, atuadores)
    /\ comandos' = Comandado("fechar")
    /\ UNCHANGED << bips, esperas >>
    /\ UNCHANGED << foraTransito, leituraR >>

\* the settle delay is over: fecharCancela, the wait reports success and loop()
\* finishes the transit
FechaAposSaida ==
    /\ pc = "pos_saida"
    /\ LET fim == Mais(millis, TempoPosSaida(rev) + TempoMovimento(rev))
       IN  /\ millis' = fim
           /\ Conclui(timeoutEntradaOcorrido, timeoutSaidaOcorrido, fim)
    /\ cancelaAberta' = FALSE
    /\ atuadores' = fecharCancela(rev, atuadores)
    /\ comandos' = Comandado("fechar")
    /\ UNCHANGED << resultado, bips, esperas >>
    /\ UNCHANGED << foraTransito, leituraR >>

---------------------------------------------------------------------------
(* Manual mode (V4 gerenciarModoManual, V5 operarModoManual) *)

\* time the delay of one iteration of the manual-mode loop takes: the delay
\* itself, or longer than a transit budget
DeltasManual(r) == {AtrasoPollManual(r), TimeoutSaida(r) + 1}

\* a manual mode in which V4 never opens the gate
ManualAtivaSemAbrir(delta) ==
    /\ pc = "manual"
    /\ esperas < MaxEsperas
    /\ jaAbriu' = IF rev = "V4" THEN TRUE ELSE jaAbriu
    /\ millis' = Mais(millis, delta)
    /\ esperas' = esperas + 1
    /\ leituraM' = TRUE
    /\ UNCHANGED << rev, gravacao, relato, leituraR, pc, contador, cancelaAberta, atuadores, comandos, eeprom, ultimaDataReset,
                    primeiraExecucao, ultimoReset, ultimoStatus, ntpSinc, hoje,
                    numSucesso, numFalha, dataAtual, ciclos >>
    /\ leituraE' = FALSE
    /\ leituraB' = FALSE
    /\ UNCHANGED semManual

\* the lever reads on: V4 opens the gate on the first such iteration and
\* refreshes the global status timer; then the delay of the loop
ManualAtiva(delta) ==
    /\ pc = "manual"
    /\ esperas < MaxEsperas
    /\ LET abre == rev = "V4" /\ ~jaAbriu
           m1 == Mais(millis, (IF abre THEN TempoMovimento(rev) ELSE 0))
       IN  /\ cancelaAberta' = IF abre THEN TRUE ELSE cancelaAberta
           /\ atuadores' = IF abre THEN abrirCancela(rev, atuadores) ELSE atuadores
           /\ comandos' = IF abre THEN Comandado("abrir") ELSE comandos
           /\ jaAbriu' = IF rev = "V4" THEN TRUE ELSE jaAbriu
           /\ ultimoStatus' =
                 IF rev = "V4" /\ MaiorQue(Decorrido(m1, ultimoStatus), IntervaloStatus(rev))
                 THEN m1 ELSE ultimoStatus
           /\ millis' = Mais(m1, delta)
    /\ esperas' = esperas + 1
    /\ leituraM' = TRUE
    /\ UNCHANGED << rev, gravacao, relato, leituraR, pc, contador, eeprom, ultimaDataReset,
                    primeiraExecucao, ultimoReset, ntpSinc, hoje, numSucesso, numFalha,
                    dataAtual, ciclos >>
    /\ leituraE' = FALSE
    /\ leituraB' = FALSE
    /\ UNCHANGED semManual

\* a manual mode that goes back to loop() without fecharCancela
ManualDesativaSemFechar ==
    /\ pc = "manual"
    /\ pc' = "idle"
    /\ leituraM' = FALSE
    /\ UNCHANGED << rev, gravacao, relato, leituraR, millis, cancelaAberta, atuadores, comandos, contador, eeprom, ultimaDataReset,
                    primeiraExecucao, ultimoReset, ultimoStatus, ntpSinc, jaAbriu, hoje,
                    numSucesso, numFalha, dataAtual, esperas, ciclos >>
    /\ leituraE' = FALSE
    /\ leituraB' = FALSE
    /\ UNCHANGED semManual

\* a manual mode that counts a vehicle when the lever is released
ManualDesativaContando ==
    /\ pc = "manual"
    /\ cancelaAberta' = FALSE
    /\ atuadores' = fecharCancela(rev, atuadores)
    /\ comandos' = Comandado("fechar")
    /\ millis' = Mais(millis, TempoMovimento(rev))
    /\ pc' = "idle"
    /\ leituraM' = FALSE
    /\ contador' = Mais(contador, 1)
    /\ UNCHANGED << rev, gravacao, relato, leituraR, eeprom, ultimaDataReset, primeiraExecucao,
                    ultimoReset, ultimoStatus, ntpSinc, jaAbriu, hoje, numSucesso,
                    numFalha, dataAtual, esperas, ciclos >>
    /\ leituraE' = FALSE
    /\ leituraB' = FALSE
    /\ UNCHANGED semManual

\* the lever reads off: fecharCancela, whatever the sensors read, and back to loop()
ManualDesativa ==
    /\ pc = "manual"
    /\ cancelaAberta' = FALSE
    /\ atuadores' = fecharCancela(rev, atuadores)
    /\ comandos' = Comandado("fechar")
    /\ millis' = Mais(millis, TempoMovimento(rev))
    /\ pc' = "idle"
    /\ leituraM' = FALSE
    /\ UNCHANGED << rev, gravacao, relato, leituraR, contador, eeprom, ultimaDataReset, primeiraExecucao,
                    ultimoReset, ultimoStatus, ntpSinc, jaAbriu, hoje, numSucesso,
                    numFalha, dataAtual, esperas, ciclos >>
    /\ leituraE' = FALSE
    /\ leituraB' = FALSE
    /\ UNCHANGED semManual

---------------------------------------------------------------------------

\* loop(): one call from the idle position, or one step of a call that blocks
Laco ==
    \/ \E e, b \in BOOLEAN, m \in Alavanca(rev), rede \in EntradasRede(rev),
          dia \in DiasPossiveis(rev), delta \in DeltasOcioso(rev) :
          LoopOcioso(e, b, m, rede, dia, delta)
    \/ \E e, b \in BOOLEAN, m \in Alavanca(rev), rede \in EntradasRede(rev),
          dia \in DiasPossiveis(rev) : LoopModoManual(e, b, m, rede, dia)
    \/ \E e, b \in BOOLEAN, m \in Alavanca(rev), rede \in EntradasRede(rev),
          dia \in DiasPossiveis(rev) : LoopAdmite(e, b, m, rede, dia)
    \/ \E t \in BOOLEAN, delta \in DeltasRetirada : RetiradaAguarda(t, delta)
    \/ \E t \in BOOLEAN : RetiradaFeita(t)
    \/ \E e \in BOOLEAN : EntradaLiberada(e)
    \/ \E e \in BOOLEAN : EntradaTimeout(e)
    \/ \E e \in BOOLEAN : EntradaAguarda(e)
    \/ \E e, x \in BOOLEAN : SaidaDetectada(e, x)
    \/ \E e, x \in BOOLEAN : SaidaFraude(e, x)
    \/ \E e, x \in BOOLEAN : SaidaTimeout(e, x)
    \/ \E e, x \in BOOLEAN : SaidaAguarda(e, x)
    \/ AvisoEFecha
    \/ FechaAposSaida
    \/ FechaAposFraude
    \/ \E delta \in DeltasManual(rev) : ManualAtiva(delta)
    \/ ManualDesativa

Next ==
    \/ \E rede \in EntradasSetup(rev), espera \in DeltasSetup(rev) :
          Setup(rede[1], rede[2], espera)
    \/ Laco

Spec == Init /\ [][Next]_vars

\* the sketches with EEPROM on a storage whose writes fail
SpecFalha == InitFalha /\ [][Next]_vars

\* the sketches with EEPROM restarted on a later day than the one of the last save
SpecReligado == InitReligado /\ [][Next]_vars

---------------------------------------------------------------------------
(* The sketch after 49.7 days of uptime: millis() is about to wrap to 0 *)

\* time from the head of the loop() that admits a request to the stamp of the
\* entry wait when nothing waits in between, plus the budget of that wait
AteOPrazo(r) == TempoTicket(r) + TempoMovimento(r) + TimeoutEntrada(r)

\* the sketch 49.7 days after power-up, less the time a transit takes to reach the
\* deadline of its entry wait: setup() is long over and loop() has been called
\* for weeks with no request, the lever off and no network (the date stays the
\* compile date, so V2, V3 and V4 never reset).  Each of these calls only ran the
\* reset check and the status report: the last report is one status interval
\* old and (V1, V5) the last 24 h reset one millisecond short of 24 h
InitVirada ==
    /\ rev \in Revisoes
    /\ gravacao = "ok"
    /\ eeprom = Zero32
    /\ pc = "idle"
    /\ millis = Sub32(Zero32, U32(AteOPrazo(rev)))
    /\ ultimoStatus = Sub32(millis, U32(IntervaloStatus(rev)))
    /\ ultimoReset = IF rev \in {"V1", "V5"}
                     THEN Sub32(millis, U32(IntervaloReset(rev) - 1)) ELSE Zero32
    /\ contador = Zero32
    /\ cancelaAberta = FALSE
    /\ atuadores = PinosAposSetup(rev, PinosNoReset)
    /\ comandos = IF rev \in {"V1", "V3", "V4"} THEN << "nenhum", "fechar" >>
                  ELSE << "nenhum", "nenhum" >>
    /\ ultimaDataReset = IF rev \in ComEEPROM THEN DataCompilacao ELSE SemData
    /\ dataAtual = IF rev \in ComEEPROM THEN DataCompilacao ELSE SemData
    /\ primeiraExecucao = (rev \notin {"V2", "V4"})
    /\ ntpSinc = FALSE
    /\ tempoInicio = Zero32
    /\ timeoutEntradaOcorrido = FALSE
    /\ timeoutSaidaOcorrido = FALSE
    /\ bips = 0
    /\ jaAbriu = FALSE
    /\ hoje = PrimeiroDia
    /\ resultado = "nenhum"
    /\ contadorAdm = Zero32
    /\ numTicket = Nenhum
    /\ numSucesso = Nenhum
    /\ numFalha = Nenhum
    /\ leituraE = FALSE
    /\ leituraX = FALSE
    /\ leituraB = FALSE
    /\ leituraR = FALSE
    /\ leituraM = FALSE
    /\ relato = SemRelato
    /\ decorrido = Zero32
    /\ inicioEspera = Zero32
    /\ esperas = 0
    /\ ciclos = 0

\* the calls of loop() from there on
SpecVirada == InitVirada /\ [][Laco]_vars

---------------------------------------------------------------------------
(* Properties *)

\* positions at which a poll has just decided the transit: leituraE, leituraX and
\* decorrido hold what that poll read
Decididos == {"aviso_entrada", "aviso_saida", "pos_saida", "fraude"}

\* positions between the admission of a request and the return to the main loop
EmTransito == {"retirada", "entrada", "saida"} \cup Decididos

\* the budget of the wait that decided (or is running)
TimeoutDaEspera == IF pc \in {"entrada", "aviso_entrada"}
                   THEN TimeoutEntrada(rev) ELSE TimeoutSaida(rev)

(* C1: in V1, V2, V3 and V5, when control returns to the main loop after a  *)
(* transit, the counter is its value at admission plus one (in unsigned     *)
(* 32-bit arithmetic) if the transit ended in SUCCESS, and its value at     *)
(* admission if it ended in an entry timeout, an exit timeout or FRAUD.     *)
C1_ContadorNoRetorno ==
    (rev \in {"V1", "V2", "V3", "V5"} /\ pc = "idle" /\ resultado # "nenhum") =>
        contador = IF resultado = "sucesso" THEN Mais(contadorAdm, 1) ELSE contadorAdm

\* a failed transit that returns to the main loop after an earlier success
C1_RetornoAposFalha ==
    /\ rev \in {"V1", "V2", "V3", "V5"}
    /\ pc = "idle"
    /\ resultado \in {"timeout_entrada", "timeout_saida", "fraude"}
    /\ numSucesso # Nenhum
    /\ contador = contadorAdm

(* C2: in every revision, a poll of the exit wait that reads the exit       *)
(* sensor present and the entry sensor present never resolves the transit   *)
(* as SUCCESS.                                                              *)
C2_FraudePrecedeSucesso ==
    (pc \in Decididos /\ pc # "aviso_entrada" /\ leituraE /\ leituraX) =>
        resultado # "sucesso"

(* C3: in every revision, a poll of the exit wait that reads the entry      *)
(* sensor present and the exit sensor absent after the deadline has been    *)
(* exceeded resolves the transit as FRAUD, not as TIMEOUT.                  *)
C3_FraudeAntesDoTimeout ==
    (/\ pc \in {"fraude", "aviso_saida"}
     /\ leituraE
     /\ ~leituraX
     /\ MaiorQue(decorrido, TimeoutSaida(rev))) => resultado = "fraude"

C5_EsperaLimitada ==
    pc \in {"retirada", "entrada", "saida"} =>
        ~MaiorQue(Decorrido(millis, IF pc = "retirada" THEN inicioEspera ELSE tempoInicio),
                  TimeoutDaEspera + AtrasoPoll(rev))

(* C6: in every revision, whenever control is at the top of the main loop   *)
(* the gate flag reads closed, so a request is only admitted with the gate  *)
(* closed.                                                                  *)
C6_FechadaNoLoop == pc = "idle" => ~cancelaAberta

\* the main loop reached again after the manual mode of V4 had opened the gate
C6_RetornoDoManual == rev = "V4" /\ pc = "idle" /\ jaAbriu /\ ~cancelaAberta

(* C7: in V4, when control returns to the main loop after a transit, the    *)
(* counter is its value at admission if the transit failed and that value   *)
(* plus one if it succeeded, for every value the counter can start with.    *)
C7_ReversaoV4 ==
    (rev = "V4" /\ pc = "idle" /\ resultado # "nenhum") =>
        contador = IF resultado = "sucesso" THEN Mais(contadorAdm, 1) ELSE contadorAdm

(* C8: in every revision, from the admission of a request until control is  *)
(* back in the main loop the counter keeps its value at admission.          *)
C8_SemIncrementoEspeculativo == pc \in EmTransito => contador = contadorAdm

(* C9: in every revision, the number printed on the ticket of an admitted   *)
(* request is the counter at its admission plus one; when the transit       *)
(* before it failed, with no reset in between, it is the number that failed *)
(* transit printed; and when the transit before it succeeded, it is the     *)
(* number after the one that transit printed.                               *)
C9_NumeroReemitido ==
    resultado = "pendente" =>
        /\ numTicket = Mais(contadorAdm, 1)
        /\ numFalha # Nenhum => numTicket = numFalha
        /\ (numFalha = Nenhum /\ numSucesso # Nenhum) => numTicket = Mais(numSucesso, 1)

(* C10: in every revision, a poll of the entry wait that reads the entry    *)
(* sensor present leaves the transit waiting when it is taken T - 1 ms      *)
(* after the start of the wait, and resolves it as TIMEOUT when it is taken *)
(* T + 1 ms after the start of the wait, T the timeout of the revision.     *)
C10_LimiteDoTimeout ==
    [][(pc = "entrada" /\ leituraE') =>
          LET el == Decorrido(millis, tempoInicio)
          IN  /\ el = U32(TimeoutEntrada(rev) - 1) => pc' = "entrada"
              /\ el = U32(TimeoutEntrada(rev) + 1) =>
                    pc' = "aviso_entrada" /\ resultado' = "timeout_entrada"]_vars

\* an entry timeout decided by the poll taken at T + 1 ms
C10_TimeoutEmTMaisUm ==
    /\ pc = "aviso_entrada"
    /\ leituraE
    /\ decorrido = U32(TimeoutEntrada(rev) + 1)

---------------------------------------------------------------------------
(* Properties of the timeout, fraud and success paths *)

(* C11: in every revision, when a transit resolves as TIMEOUT the gate is   *)
(* open and no beep has sounded when the warning starts, and when control   *)
(* is back in the main loop the warning has played its fixed number of      *)
(* beeps, the gate is closed and the counter is its value at admission.     *)
C11_TimeoutComAviso ==
    /\ pc \in {"aviso_entrada", "aviso_saida"} => (cancelaAberta /\ bips = 0)
    /\ (pc = "idle" /\ resultado \in {"timeout_entrada", "timeout_saida"}) =>
          /\ bips = NumBips(rev)
          /\ ~cancelaAberta
          /\ contador = contadorAdm

(* C12: in every revision, a poll of the exit wait that reads the entry     *)
(* sensor present and the exit sensor absent with the deadline not exceeded *)
(* resolves the transit as FRAUD with the gate still open and no beep; and  *)
(* when control is back in the main loop after a FRAUD the gate is closed,  *)
(* no beep has sounded and the counter is its value at admission.           *)
C12_FraudeImediata ==
    /\ (/\ pc \in {"saida", "pos_saida", "fraude", "aviso_saida"}
        /\ leituraE
        /\ ~leituraX
        /\ ~MaiorQue(decorrido, TimeoutSaida(rev))) =>
            (pc = "fraude" /\ resultado = "fraude" /\ bips = 0 /\ cancelaAberta)
    /\ (pc = "idle" /\ resultado = "fraude") =>
          /\ bips = 0
          /\ ~cancelaAberta
          /\ contador = contadorAdm

(* C13: in every revision, the gate is opened when the entry wait starts    *)
(* and stays open through the waits; a poll of the exit wait taken before   *)
(* the deadline that reads the exit sensor present and the entry sensor     *)
(* absent resolves the transit as SUCCESS with the gate still open; the     *)
(* gate is then closed after the settle delay, with no beep, and the        *)
(* counter at the return to the main loop is its value at admission plus    *)
(* one (unsigned 32-bit).                                                   *)
C13_CaminhoFeliz ==
    [][/\ pc \in {"entrada", "saida", "pos_saida"} => cancelaAberta
       /\ (/\ pc = "saida"
           /\ ~leituraE'
           /\ leituraX'
           /\ ~MaiorOuIgual(Decorrido(millis, tempoInicio), TimeoutSaida(rev))) =>
               (pc' = "pos_saida" /\ resultado' = "sucesso" /\ cancelaAberta'
                   /\ millis' = millis)
       /\ pc = "pos_saida" =>
             /\ pc' = "idle"
             /\ ~cancelaAberta'
             /\ bips' = 0
             /\ Decorrido(millis', millis) =
                   U32((CASE rev = "V1" -> ATRASO_POS_SAIDA_MS
                          [] rev = "V2" -> ESPERA_PARA_FECHAR
                          [] rev = "V3" -> DELAY_POS_SAIDA
                          [] rev = "V4" -> ATRASO_FECHAMENTO
                          [] rev = "V5" -> ATRASO_FECHAMENTO_APOS_SAIDA)
                       + TempoMovimento(rev))
             /\ contador' = Mais(contadorAdm, 1)]_vars

\* a successful transit back in the main loop, counted
C13_SucessoContado ==
    /\ pc = "idle"
    /\ resultado = "sucesso"
    /\ ~cancelaAberta
    /\ bips = 0
    /\ contador = Mais(contadorAdm, 1)

---------------------------------------------------------------------------
(* Properties of the head of loop(): admission and the daily reset *)

\* a step that is one call of loop() from the main-loop position
Tick == pc = "idle" /\ ciclos' # ciclos

\* the counter after the reset check of the tick, before any ticket
ContadorDoTick == IF pc' \in {"entrada", "retirada"} THEN contadorAdm' ELSE contador'

\* the reset check of the tick made a reset: it moved its stamp
FezReset == ultimaDataReset' # ultimaDataReset \/ ultimoReset' # ultimoReset

(* C14, as the specification states it: in every revision, a tick that      *)
(* reads the lever off (V4, V5) admits a transit if and only if its sample  *)
(* has the entry sensor present and the button pressed; otherwise no ticket *)
(* is issued, the gate is not opened and the counter is unchanged.          *)
C14_AdmissaoSemReset ==
    [][(Tick /\ ~leituraM') =>
          /\ (pc' \in {"entrada", "retirada"}) <=> (leituraE' /\ leituraB')
          /\ ~(leituraE' /\ leituraB') =>
                /\ pc' = "idle"
                /\ numTicket' = Nenhum
                /\ ~cancelaAberta'
                /\ contador' = contador]_vars

(* C14, amended: in every revision, a tick that reads the lever off admits  *)
(* a transit if and only if its sample has the entry sensor present and the *)
(* button pressed; otherwise no ticket is issued, the gate is not opened    *)
(* and the counter is not incremented: it keeps its value, or becomes 0     *)
(* when the reset check of that tick makes its reset.                       *)
C14_Admissao ==
    [][(Tick /\ ~leituraM') =>
          /\ (pc' \in {"entrada", "retirada"}) <=> (leituraE' /\ leituraB')
          /\ ~(leituraE' /\ leituraB') =>
                /\ pc' = "idle"
                /\ numTicket' = Nenhum
                /\ ~cancelaAberta'
                /\ contador' = IF FezReset THEN Zero32 ELSE contador]_vars

\* a tick that found the vehicle in place and the button not pressed
C14_SemBotao ==
    /\ pc = "idle"
    /\ ciclos > 0
    /\ resultado = "nenhum"
    /\ leituraE
    /\ ~leituraB
    /\ ~leituraM

(* C15: in V2, V3 and V4, a tick whose current date differs from the stored *)
(* date of the last reset sets the counter to 0, writes 0 to the EEPROM and *)
(* stores the current date; after setup() the stored date only changes in   *)
(* a tick that resets the counter and the EEPROM cell, and a tick that      *)
(* leaves the stored date alone leaves the counter and the cell alone.      *)
C15_ViradaDoDia ==
    [][(rev \in ComEEPROM) =>
          (/\ (Tick /\ dataAtual' # ultimaDataReset) =>
                 (/\ ContadorDoTick = Zero32
                  /\ eeprom' = Zero32
                  /\ ultimaDataReset' = dataAtual')
           /\ (pc # "setup" /\ ultimaDataReset' # ultimaDataReset) =>
                 (Tick /\ ContadorDoTick = Zero32 /\ eeprom' = Zero32)
           /\ (Tick /\ ultimaDataReset' = ultimaDataReset) =>
                 (ContadorDoTick = contador /\ eeprom' = eeprom))]_vars

\* the main loop after the tick that saw the second day
C15_NovoDia ==
    /\ rev \in ComEEPROM
    /\ pc = "idle"
    /\ ultimaDataReset = PrimeiroDia + 1
    /\ dataAtual = PrimeiroDia + 1
    /\ contador = Zero32
    /\ eeprom = Zero32

(* C16: in V2, V3 and V4, a tick whose reset check sees the date the check  *)
(* before it saw leaves the counter, the EEPROM cell and the stored date    *)
(* unchanged, a success counted between the two checks included.            *)
C16_ResetIdempotente ==
    [][(rev \in ComEEPROM /\ Tick /\ dataAtual' = dataAtual) =>
          /\ ContadorDoTick = contador
          /\ eeprom' = eeprom
          /\ ultimaDataReset' = ultimaDataReset]_vars

\* the second tick, on the date of the first, with the success counted between them
C16_SucessoMantido ==
    /\ rev \in ComEEPROM
    /\ pc = "idle"
    /\ ciclos = 2
    /\ resultado = "nenhum"
    /\ numSucesso # Nenhum
    /\ contador = numSucesso
    /\ eeprom = numSucesso
    /\ contador # Zero32

\* the reset of the tick is due: the date differs (V2, V3, V4) or 24 h have passed
ResetDevido ==
    IF rev \in ComEEPROM
    THEN dataAtual' # ultimaDataReset
    ELSE MaiorOuIgual(Decorrido(millis, ultimoReset),
                      IF rev = "V1" THEN INTERVALO_RESET_CONTADOR_MS
                      ELSE INTERVALO_RESET_CONTADOR)

\* the reset of the tick was made
ResetFeito ==
    /\ ContadorDoTick = Zero32
    /\ IF rev \in ComEEPROM
       THEN ultimaDataReset' = dataAtual' /\ eeprom' = Zero32
       ELSE ultimoReset' = millis

\* between admission and resolution no step makes the reset
SemResetNoTransito ==
    pc \in EmTransito =>
        /\ ultimaDataReset' = ultimaDataReset
        /\ ultimoReset' = ultimoReset
        /\ dataAtual' = dataAtual
        /\ pc' # "idle" => (contador' = contador /\ eeprom' = eeprom)
        /\ pc' = "idle" =>
              /\ contador' \in {contador, Mais(contador, 1), Menos(contador, 1)}
              /\ eeprom' \in {eeprom, contador'}

(* C17, as the specification states it: in every revision, no step between  *)
(* admission and resolution makes the daily reset, and when the reset is    *)
(* due at the first tick after the transit, that tick makes it.             *)
C17_ResetNoPrimeiroTick ==
    [][/\ SemResetNoTransito
       /\ (Tick /\ resultado # "nenhum" /\ ResetDevido) => ResetFeito]_vars

(* C17, amended: in every revision, no step between admission and           *)
(* resolution makes the daily reset; when the reset is due at the first     *)
(* tick after the transit, that tick makes it, except in V5 when the tick   *)
(* reads the lever on: V5 tests the lever before the reset check, so the    *)
(* reset waits for the first tick that reads the lever off.                 *)
C17_ResetForaDoTransito ==
    [][/\ SemResetNoTransito
       /\ (Tick /\ resultado # "nenhum" /\ ResetDevido) =>
             IF rev = "V5" /\ leituraM'
             THEN (contador' = contador /\ ultimoReset' = ultimoReset)
             ELSE ResetFeito]_vars

\* back in the main loop after a counted transit during which the 24 h ran out
C17_LimiteNoTransito ==
    /\ rev \in {"V1", "V5"}
    /\ pc = "idle"
    /\ ciclos < MaxCiclos
    /\ resultado = "sucesso"
    /\ contador # Zero32
    /\ MaiorOuIgual(Decorrido(millis, ultimoReset),
                    IF rev = "V1" THEN INTERVALO_RESET_CONTADOR_MS
                    ELSE INTERVALO_RESET_CONTADOR)

---------------------------------------------------------------------------
(* Properties of the manual mode (V4, V5) *)

(* C18: in V4 and V5, once the manual mode has read the lever on (V5 opens  *)
(* on entry, V4 on the first such read) the gate is open in every state     *)
(* until the lever is read off; that read closes the gate and returns to    *)
(* the main loop with the gate closed.                                      *)
C18_ManualMantemAberta ==
    [][/\ (pc = "manual" /\ (rev = "V4" => jaAbriu)) => cancelaAberta
       /\ (pc = "manual" /\ leituraM') => (pc' = "manual" /\ cancelaAberta')
       /\ (pc = "manual" /\ ~leituraM') => (pc' = "idle" /\ ~cancelaAberta')]_vars

\* V5 back in the main loop after a manual mode that held the gate open
C18_ManualEncerrado ==
    /\ rev = "V5"
    /\ pc = "idle"
    /\ ciclos = 1
    /\ esperas > 0
    /\ resultado = "nenhum"
    /\ ~cancelaAberta

(* C19: in V4 and V5, no step of the manual mode changes the counter or the *)
(* EEPROM cell, issues a ticket, sounds the warning or resolves a transit,  *)
(* and the gate is only closed by the step that reads the lever off,        *)
(* however long the mode lasts.                                             *)
C19_ManualForaDaMaquina ==
    [][pc = "manual" =>
          /\ contador' = contador
          /\ eeprom' = eeprom
          /\ bips' = bips
          /\ numTicket' = numTicket
          /\ resultado' = resultado
          /\ (cancelaAberta /\ ~cancelaAberta') => ~leituraM']_vars

\* V4 in manual mode, gate open, for longer than a transit budget
C19_ManualLongo ==
    /\ rev = "V4"
    /\ pc = "manual"
    /\ ciclos = 1
    /\ cancelaAberta
    /\ MaiorQue(millis, TIMEOUT_OPERACAO_V4)

(* C20: in V4 and V5, a tick that reads the lever on enters the manual mode *)
(* and admits no transit: no ticket is issued and the counter is not        *)
(* incremented, whatever the entry sensor and the button read.              *)
C20_ManualPrecede ==
    [][(Tick /\ leituraM') =>
          /\ pc' = "manual"
          /\ resultado' = "nenhum"
          /\ numTicket' = Nenhum
          /\ contador' = IF FezReset THEN Zero32 ELSE contador]_vars

\* manual mode entered by a tick that had the vehicle in place and the button pressed
C20_ManualComPedido ==
    /\ pc = "manual"
    /\ leituraM
    /\ leituraE
    /\ leituraB

---------------------------------------------------------------------------
(* Properties of the transit as a whole *)

\* the position a poll of a wait leads to, from the levels it read and the
\* deadline test alone, in the order each sketch makes its tests
PosicaoAposPoll(r, p, e, x, exp) ==
    IF p = "entrada"
    THEN (IF r = "V2"
          THEN (IF exp THEN "aviso_entrada" ELSE IF ~e THEN "saida" ELSE "entrada")
          ELSE (IF ~e THEN "saida" ELSE IF exp THEN "aviso_entrada" ELSE "entrada"))
    ELSE (CASE r = "V2" ->
                 (IF exp THEN "aviso_saida" ELSE IF e THEN "fraude"
                  ELSE IF x THEN "pos_saida" ELSE "saida")
            [] r = "V4" ->
                 (IF x THEN "pos_saida" ELSE IF exp THEN "aviso_saida"
                  ELSE IF e THEN "fraude" ELSE "saida")
            [] OTHER ->
                 (IF x THEN "pos_saida" ELSE IF e THEN "fraude"
                  ELSE IF exp THEN "aviso_saida" ELSE "saida"))

\* the outcome a position stands for
ResultadoDe(p, atual) ==
    CASE p = "aviso_entrada" -> "timeout_entrada"
      [] p = "aviso_saida" -> "timeout_saida"
      [] p = "fraude" -> "fraude"
      [] p = "pos_saida" -> "sucesso"
      [] OTHER -> atual

\* the counter loop() leaves after a transit with the given outcome
ContadorApos(r, c, res) ==
    IF r = "V4"
    THEN (IF res = "sucesso" \/ c = Zero32 THEN c ELSE Menos(c, 1))
    ELSE (IF res = "sucesso" THEN Mais(c, 1) ELSE c)

(* C21: in every revision, no step of an admitted transit samples the button *)
(* or the lever, and each step is a function of the state of the transit,   *)
(* the entry and exit levels of the poll and the clock: the position and    *)
(* the outcome after a poll, and the gate, the beeps and the counter after  *)
(* the resolution, are fixed by them, so that two transits with the same    *)
(* sensor and clock traces end alike whatever the button and the lever do.  *)
C21_SemAbortoExterno ==
    [][(pc \in EmTransito) =>
          /\ leituraM' = leituraM
          /\ (pc' # "idle") => (leituraB' = leituraB)
          /\ (pc \in {"entrada", "saida"}) =>
                LET exp == Expirou(rev, Decorrido(millis, tempoInicio),
                                   IF pc = "entrada" THEN TimeoutEntrada(rev)
                                   ELSE TimeoutSaida(rev))
                    p == PosicaoAposPoll(rev, pc, leituraE', leituraX', exp)
                IN  /\ pc' = p
                    /\ resultado' = ResultadoDe(p, resultado)
                    /\ cancelaAberta' = cancelaAberta
                    /\ contador' = contador
                    /\ bips' = bips
          /\ (pc = "retirada") =>
                /\ pc' \in {"retirada", "entrada"}
                /\ cancelaAberta' = (pc' = "entrada")
                /\ resultado' = resultado
                /\ contador' = contador
                /\ bips' = bips
          /\ (pc \in Decididos) =>
                /\ pc' = "idle"
                /\ resultado' = resultado
                /\ ~cancelaAberta'
                /\ bips' = (IF pc \in {"aviso_entrada", "aviso_saida"}
                            THEN NumBips(rev) ELSE bips)
                /\ contador' = ContadorApos(rev, contador, resultado)]_vars

\* a transit decided after the waits polled more than once, the button and the
\* lever still as loop() sampled them at admission
C21_TransitoSemAmostra ==
    /\ pc \in Decididos
    /\ esperas = MaxEsperas
    /\ leituraB
    /\ ~leituraM

\* the clock when abrirCancela() of the running transit commanded the servo: the
\* entry wait starts when its movement delay is over
InstanteAbertura == Menos(inicioEspera, TempoMovimento(rev))

\* two timeout budgets, the warning sequence and the settle delay
LimiteAberta(r) ==
    TimeoutEntrada(r) + TimeoutSaida(r) + NumBips(r) * PeriodoBip(r) + TempoPosSaida(r)

(* C22: in every revision, from the open command of the automatic sequence  *)
(* to the return to the main loop the gate is open, every path out of the   *)
(* waits closes it, and the time since the open command never exceeds two   *)
(* timeout budgets plus the warning sequence and the settle delay, whatever *)
(* the sensors read.                                                        *)
C22_AbertaPorTempoLimitado ==
    [][(pc \in {"entrada", "saida"} \cup Decididos) =>
          /\ cancelaAberta
          /\ (pc' = "idle") => ~cancelaAberta'
          /\ (pc' # "idle") => cancelaAberta'
          /\ ~MaiorQue(Decorrido(millis', InstanteAbertura), LimiteAberta(rev))]_vars

\* the longest way to the close: the entry sensor clears at the end of its budget
\* and the exit wait runs out
C22_DuasEsperasLongas ==
    /\ pc = "aviso_saida"
    /\ cancelaAberta
    /\ rev # "V2"
    /\ MaiorQue(Decorrido(millis, InstanteAbertura),
                TimeoutEntrada(rev) + TimeoutSaida(rev) - 1)

---------------------------------------------------------------------------
(* Properties of the start-up *)

(* C23: in V2, V3, V4 and V5, setup() returns when the Wi-Fi is not         *)
(* connected: at the start of setup() the step that finds no network and    *)
(* takes the program to the main loop can be taken; after setup() the gate  *)
(* is closed, the stored date of V2, V3 and V4 is a date the sketch could   *)
(* format (the compile date without network), and a request made without   *)
(* network can be admitted.                                                 *)
C23_SetupTerminaSemRede ==
    /\ (pc = "setup" /\ rev \in {"V2", "V3", "V4", "V5"}) =>
          ENABLED Setup(FALSE, FALSE, 0)
    /\ (pc = "idle" /\ ciclos = 0 /\ rev \in {"V2", "V3", "V4", "V5"}) =>
          /\ ~cancelaAberta
          /\ (rev # "V5") => (dataAtual # SemData /\ ultimaDataReset = dataAtual)
          /\ ENABLED LoopAdmite(TRUE, TRUE, FALSE, << FALSE, FALSE >>, hoje)

---------------------------------------------------------------------------
(* Properties of the persisted counter (V2, V3, V4) *)

(* C24: in V2, V3 and V4, whenever the program is in the main loop after    *)
(* setup(), the EEPROM cell holds the value of the in-memory counter.       *)
C24_EEPROMIgualAoContador ==
    (rev \in ComEEPROM /\ pc = "idle") => eeprom = contador

(* C25: in V2, V3 and V4 on a storage whose writes silently fail, every     *)
(* step after setup() treats the in-memory counter, the position, the gate  *)
(* and the beeps as it does when the writes succeed: the counter after a    *)
(* tick is 0 when the date changed and its old value otherwise, the waits   *)
(* move by the sensors and the clock alone, the counter after a resolution  *)
(* is fixed by the counter and the outcome, and the cell is only written:   *)
(* it keeps its value or takes the value of the counter.                    *)
C25_PersistenciaSemEfeito ==
    [][(pc # "setup") =>
          /\ Tick =>
                /\ ContadorDoTick = (IF dataAtual' # ultimaDataReset THEN Zero32
                                     ELSE contador)
                /\ (pc' \in {"entrada", "retirada"}) <=>
                      (leituraE' /\ leituraB' /\ ~leituraM')
                /\ (pc' = "manual") <=> leituraM'
          /\ (pc \in {"entrada", "saida"}) =>
                /\ pc' = PosicaoAposPoll(rev, pc, leituraE', leituraX',
                            Expirou(rev, Decorrido(millis, tempoInicio),
                                    IF pc = "entrada" THEN TimeoutEntrada(rev)
                                    ELSE TimeoutSaida(rev)))
                /\ contador' = contador
                /\ cancelaAberta' = cancelaAberta
          /\ (pc \in {"retirada", "manual"}) => (contador' = contador)
          /\ (pc \in Decididos) =>
                /\ pc' = "idle"
                /\ ~cancelaAberta'
                /\ bips' = (IF pc \in {"aviso_entrada", "aviso_saida"}
                            THEN NumBips(rev) ELSE bips)
                /\ contador' = ContadorApos(rev, contador, resultado)
          /\ eeprom' \in {eeprom, contador', Zero32}]_vars

\* a success counted in memory whose write to the cell was lost
C25_GravacaoPerdida ==
    /\ gravacao = "falha"
    /\ rev \in {"V2", "V3"}
    /\ pc = "idle"
    /\ resultado = "sucesso"
    /\ contador = Mais(contadorAdm, 1)
    /\ eeprom # contador

---------------------------------------------------------------------------
(* The gate flag, the LEDs and the servo against the commands *)

\* C26: once abrirCancela() or fecharCancela() has returned, the gate flag says
\* open exactly when the last of the two to return was abrirCancela(); the green
\* LED is lit exactly when the flag says open and the red LED exactly when it
\* says closed, so the two are never lit together; in the sketches with a servo
\* the pulse last written is the open position exactly when the flag says open
C26_EstadoEspelhaComando ==
    comandos[2] # "nenhum" =>
        /\ cancelaAberta <=> comandos[2] = "abrir"
        /\ atuadores.verde <=> cancelaAberta
        /\ atuadores.vermelho <=> ~cancelaAberta
        /\ TemServo(rev) =>
              atuadores.servo = (IF cancelaAberta THEN SERVO_POSICAO_ABERTA
                                 ELSE SERVO_POSICAO_FECHADA)

\* a transit is running on the open gate, opened after an earlier close: green
\* lit, red out
C26_AbertaAposFechada ==
    /\ pc = "saida"
    /\ comandos = << "fechar", "abrir" >>
    /\ cancelaAberta
    /\ atuadores.verde
    /\ ~atuadores.vermelho

\* C27: a command repeated on a gate that is already where it sends it changes
\* nothing: from any state the sketch reaches, fecharCancela() twice leaves the
\* LEDs and the servo as fecharCancela() once, and abrirCancela() likewise; and a
\* step that ends with fecharCancela() returned on a gate whose last command was
\* fecharCancela() leaves the flag, the LEDs and the servo as they were
C27_ComandoRepetido ==
    [][/\ \A a \in {atuadores, atuadores'} :
             /\ fecharCancela(rev, fecharCancela(rev, a)) = fecharCancela(rev, a)
             /\ abrirCancela(rev, abrirCancela(rev, a)) = abrirCancela(rev, a)
       /\ \A c \in {"abrir", "fechar"} :
             (comandos[2] = c /\ comandos'[2] = c) =>
                 /\ atuadores' = atuadores
                 /\ cancelaAberta' = cancelaAberta
                 /\ cancelaAberta <=> c = "abrir"]_vars

\* V4 is back in the main loop from a manual mode that never opened the gate:
\* fecharCancela() has returned twice in a row, the gate is closed, red lit
C27_FechadaDuasVezes ==
    /\ rev = "V4"
    /\ pc = "idle"
    /\ comandos = << "fechar", "fechar" >>
    /\ ~jaAbriu
    /\ ~cancelaAberta
    /\ atuadores.vermelho
    /\ ~atuadores.verde
    /\ atuadores.servo = SERVO_POSICAO_FECHADA

---------------------------------------------------------------------------
(* The 24 h reset of V1 and V5 *)

\* 24 h of millis() have passed at this tick since the stamp of the last reset
Venceu24h ==
    MaiorOuIgual(Decorrido(millis, ultimoReset),
                 IF rev = "V1" THEN INTERVALO_RESET_CONTADOR_MS
                 ELSE INTERVALO_RESET_CONTADOR)

\* what the reset check of a tick of V1 or V5 does: the reset with its stamp
\* when it is due, nothing otherwise
Reset24hSeDevido ==
    IF Venceu24h
    THEN ContadorDoTick = Zero32 /\ ultimoReset' = millis
    ELSE ContadorDoTick = contador /\ ultimoReset' = ultimoReset

\* no step moves the stamp by less than 24 h
CarimbosAfastados ==
    ultimoReset' # ultimoReset =>
        MaiorOuIgual(Decorrido(ultimoReset', ultimoReset),
                     IF rev = "V1" THEN INTERVALO_RESET_CONTADOR_MS
                     ELSE INTERVALO_RESET_CONTADOR)

(* C28, as the specification states it: in V1 and V5, every call of loop()  *)
(* from the main-loop position sets the counter to 0 and the reset stamp to *)
(* the current time if and only if at least 24 h of millis() have passed    *)
(* since the stamp, so that a reset that is due is never skipped; and two   *)
(* resets are never less than 24 h apart.                                   *)
C28_ResetEmTodoTick ==
    [][(rev \in {"V1", "V5"}) =>
          /\ Tick => Reset24hSeDevido
          /\ CarimbosAfastados]_vars

(* C28, amended: in V1, and in V5 at a call of loop() that reads the lever  *)
(* off, the counter is set to 0 and the reset stamp to the current time if  *)
(* and only if at least 24 h of millis() have passed since the stamp; a     *)
(* call of V5's loop() that reads the lever on enters the manual mode       *)
(* without the check and leaves counter and stamp as they are, so a reset   *)
(* that is due waits for the first call that reads the lever off; and two   *)
(* resets are never less than 24 h apart.                                   *)
C28_Reset24h ==
    [][(rev \in {"V1", "V5"}) =>
          /\ (Tick /\ ~(rev = "V5" /\ leituraM')) => Reset24hSeDevido
          /\ (Tick /\ rev = "V5" /\ leituraM') =>
                (contador' = contador /\ ultimoReset' = ultimoReset)
          /\ (~Tick) => ultimoReset' = ultimoReset
          /\ CarimbosAfastados]_vars

\* a reset has been made by the 24 h check: the stamp has left its start value
C28_CarimboAvancou ==
    /\ rev \in {"V1", "V5"}
    /\ ultimoReset # Zero32
    /\ MaiorOuIgual(ultimoReset, INTERVALO_RESET_CONTADOR)
    /\ ~MaiorOuIgual(Decorrido(millis, ultimoReset), INTERVALO_RESET_CONTADOR)

---------------------------------------------------------------------------
(* V3: the ticket is taken before the gate opens *)

\* C29: in V3 a tick that admits a request prints the ticket and leaves the gate
\* closed; while the ticket waits to be taken the gate stays closed on every
\* sample of the retrieval sensor that reads active; and every step that opens
\* the gate is one whose sample of the retrieval sensor reads inactive, taken
\* with a ticket printed
C29_RetiradaAntesDeAbrir ==
    [][(rev = "V3") =>
          /\ (Tick /\ pc' # "idle") =>
                (pc' = "retirada" /\ numTicket' # Nenhum /\ ~cancelaAberta')
          /\ (pc = "retirada") =>
                /\ ~cancelaAberta
                /\ leituraR' => (pc' = "retirada" /\ ~cancelaAberta')
                /\ ~leituraR' => (pc' = "entrada" /\ cancelaAberta')
          /\ (~cancelaAberta /\ cancelaAberta') =>
                (pc = "retirada" /\ numTicket # Nenhum /\ ~leituraR')]_vars

\* V3 has just opened the gate on a sample that read the ticket taken, after a
\* wait on samples that read it in the slot
C29_AbertaAposRetirada ==
    /\ rev = "V3"
    /\ pc = "entrada"
    /\ cancelaAberta
    /\ numTicket # Nenhum
    /\ ~leituraR
    /\ ciclos = 1
    /\ esperas > 0
    /\ millis = inicioEspera
    /\ decorrido = Zero32

---------------------------------------------------------------------------
(* The outcome of a transit, once decided *)

\* C30: in every revision a transit is decided once, by a poll of one of its
\* waits, with the outcome that poll stands for; from there to the return to
\* the main loop (the warning beeps, the settle delay, the close movement) no
\* sensor is sampled and the outcome stays; the return comes in one step, with
\* the counter and the record of the ticket that the outcome alone fixes; and
\* the outcome stays until the next call of loop() starts afresh
C30_ResultadoTerminal ==
    [][/\ (pc' \in Decididos) =>
             /\ pc \in {"entrada", "saida"}
             /\ resultado = "pendente"
             /\ resultado' = ResultadoDe(pc', resultado)
       /\ (pc \in Decididos) =>
             /\ resultado = ResultadoDe(pc, resultado)
             /\ resultado' = resultado
             /\ pc' = "idle"
             /\ << leituraE', leituraX' >> = << FALSE, FALSE >>
             /\ contadorAdm' = contadorAdm
             /\ numTicket' = numTicket
             /\ contador' = ContadorApos(rev, contador, resultado)
             /\ IF resultado = "sucesso"
                THEN numSucesso' = numTicket /\ numFalha' = Nenhum
                ELSE numSucesso' = numSucesso /\ numFalha' = numTicket
       /\ (resultado \notin {"nenhum", "pendente"} /\ resultado' # resultado) =>
             (Tick /\ resultado' \in {"nenhum", "pendente"})]_vars

\* back in the main loop after an exit timeout: the warning was given in full,
\* the ticket is on record as failed and the outcome is still the timeout
C30_TimeoutEncerrado ==
    /\ pc = "idle"
    /\ resultado = "timeout_saida"
    /\ bips = NumBips(rev)
    /\ numTicket # Nenhum
    /\ numFalha = numTicket
    /\ ~cancelaAberta

---------------------------------------------------------------------------
(* The idle status report *)

\* the call of loop() made in this step prints an idle status
Relatou == Tick /\ relato'[1] # "nenhum"

\* the stamp of the status timer moves only to a reading of the clock taken
\* during the step
CarimboDoStatusNoPasso ==
    ultimoStatus' # ultimoStatus =>
        ~MaiorQue(Decorrido(millis', ultimoStatus'), Val(Decorrido(millis', millis)))

\* C31: in every revision, a call of loop() that prints an idle status does so
\* at least one status interval after the stamp of the status timer, which no
\* step sets to anything but the current time and which the report sets anew,
\* so that two reports are never less than the interval apart; and the report
\* is the one status its samples select: vehicle waiting when the entry sensor
\* reads present and the button not pressed, button without vehicle when the
\* entry sensor reads absent and the button pressed, system idle when both read
\* inactive
C31_StatusLimitadoEExclusivo ==
    [][/\ CarimboDoStatusNoPasso
       /\ Relatou =>
             /\ MaiorOuIgual(Decorrido(millis, ultimoStatus), IntervaloStatus(rev))
             /\ ultimoStatus' = millis
             /\ relato'[1] \in {"veiculo", "botao", "ocioso"}
             /\ (relato'[1] = "veiculo") <=> (relato'[2] /\ ~relato'[3])
             /\ (relato'[1] = "botao") <=> (~relato'[2] /\ relato'[3])
             /\ (relato'[1] = "ocioso") <=> (~relato'[2] /\ ~relato'[3])]_vars


\* C32: in every revision, a call of loop() that admits no request and (V4, V5)
\* reads the lever off, made more than one status interval after the stamp of
\* the status timer, prints an idle status and sets the stamp to the current
\* time; since no step puts the stamp ahead of the clock, an idle system is
\* never more than one status interval and one pass of loop() from its next
\* report
C32_StatusNaoSuprimido ==
    [][/\ CarimboDoStatusNoPasso
       /\ (Tick /\ pc' = "idle"
                /\ MaiorQue(Decorrido(millis, ultimoStatus), IntervaloStatus(rev))) =>
             /\ relato'[1] \in {"veiculo", "botao", "ocioso"}
             /\ ultimoStatus' = millis]_vars

\* an idle system has just reported 'system idle', more than one status
\* interval after power-up
C32_RelatoOcioso ==
    /\ pc = "idle"
    /\ relato = << "ocioso", FALSE, FALSE >>
    /\ MaiorQue(ultimoStatus, IntervaloStatus(rev))
    /\ ~cancelaAberta

---------------------------------------------------------------------------
(* The date-based reset against the real calendar *)

\* C33: in V2, V3 and V4, as long as the real calendar date is the one of
\* power-up, no call of loop() resets the counter or moves the stored date of
\* the last reset, however the network and the NTP updates come and go
C33_ResetSoNaViradaReal ==
    [][(rev \in ComEEPROM /\ Tick /\ hoje' = PrimeiroDia) =>
          /\ ultimaDataReset' = ultimaDataReset
          /\ ContadorDoTick = contador]_vars

---------------------------------------------------------------------------
(* The order of the two waits *)

\* C34: in every revision, the entry wait never raises a fraud and never reads
\* the exit sensor: a poll of it that reads the entry sensor present keeps the
\* transit waiting or times it out; the exit wait is entered only from a poll
\* of the entry wait that reads the entry sensor absent; and a transit becomes
\* a success only in the exit wait, on a poll that reads the exit sensor
\* present, hence after that poll of the entry wait
C34_OrdemDasFases ==
    [][/\ (pc' \in {"retirada", "entrada"}) => ~leituraX'
       /\ (pc = "entrada") =>
             /\ pc' \in {"entrada", "saida", "aviso_entrada"}
             /\ resultado' \in {"pendente", "timeout_entrada"}
             /\ leituraE' => pc' \in {"entrada", "aviso_entrada"}
       /\ (pc' = "saida" /\ pc # "saida") => (pc = "entrada" /\ ~leituraE')
       /\ (resultado' = "sucesso" /\ resultado # "sucesso") =>
             (pc = "saida" /\ leituraX' /\ pc' = "pos_saida")]_vars

\* a success decided by the exit sensor after the entry wait had to wait for
\* the vehicle to clear the entry sensor
C34_SaidaAposEntrada ==
    /\ pc = "pos_saida"
    /\ resultado = "sucesso"
    /\ leituraX
    /\ esperas > 0
    /\ ciclos = 1
    /\ tempoInicio # inicioEspera

---------------------------------------------------------------------------
(* The commands of one transit *)

\* C35: in every revision an admitted transit calls abrirCancela() once, on a
\* closed gate (at admission; in V3 when the ticket has been taken), calls
\* neither function while its waits poll, and calls fecharCancela() once, in
\* the step that decides nothing more and returns to the main loop, whatever
\* the outcome; after an entry timeout that step follows the one warning
\* sequence directly, with no poll of the exit wait in between
C35_UmAbrirUmFechar ==
    [][/\ (Tick /\ pc' = "entrada") =>
             (comandos[2] # "abrir" /\ comandos' = << comandos[2], "abrir" >>)
       /\ (Tick /\ pc' = "retirada") => comandos' = comandos
       /\ (pc = "retirada") =>
             IF pc' = "entrada"
             THEN comandos[2] # "abrir" /\ comandos' = << comandos[2], "abrir" >>
             ELSE comandos' = comandos
       /\ (pc \in {"entrada", "saida"}) =>
             (comandos[2] = "abrir" /\ comandos' = comandos)
       /\ (pc \in Decididos) =>
             /\ comandos[2] = "abrir"
             /\ comandos' = << "abrir", "fechar" >>
             /\ pc' = "idle"
       /\ (pc = "aviso_entrada") =>
             /\ resultado' = "timeout_entrada"
             /\ bips' = NumBips(rev)
             /\ ~leituraX'
             /\ (rev = "V4") => timeoutSaidaOcorrido = FALSE]_vars

\* back in the main loop after an entry timeout: one open, one close, one
\* warning sequence
C35_FechadaAposTimeoutDeEntrada ==
    /\ pc = "idle"
    /\ resultado = "timeout_entrada"
    /\ comandos = << "abrir", "fechar" >>
    /\ bips = NumBips(rev)
    /\ ~cancelaAberta

---------------------------------------------------------------------------
(* Restart across a day change *)

\* C36: in V2, V3 and V4, restarted with a count in the cell that was saved on
\* an earlier calendar day, the counter is 0 when the first request is admitted
C36_ContadorDoDiaAoReligar ==
    (pc \in {"entrada", "retirada"} /\ ciclos = 1) => contadorAdm = Zero32

---------------------------------------------------------------------------
(* Clock wrap-around *)

\* a reading of the clock counted from the wrap: the milliseconds since millis()
\* last passed 0, negative for a reading taken in the 2^31 ms before the wrap
DesdeAVolta(a) == IF Cabe(a) THEN Val(a) ELSE (a[1] - W16) * W16 + a[2]

\* the time that really passed between two readings of the clock
TempoReal(agora, inicio) == DesdeAVolta(agora) - DesdeAVolta(inicio)

\* the limit is really spent: V1 tests >=, the others >
VencidoReal(r, t, limite) == IF r = "V1" THEN t >= limite ELSE t > limite

\* a poll of a transit wait computes the time that really passed since the stamp
\* of the wait, times out only when the budget is really spent and goes on
\* waiting only when it is not
EsperaNoTempoReal ==
    pc \in {"entrada", "saida"} =>
        LET t == TempoReal(millis, tempoInicio)
        IN  /\ decorrido' = U32(t)
            /\ resultado' \in {"timeout_entrada", "timeout_saida"} =>
                  VencidoReal(rev, t, TimeoutDaEspera)
            /\ pc' = pc => ~VencidoReal(rev, t, TimeoutDaEspera)

\* an idle call of loop() moves the status stamp exactly when the interval is
\* really spent (V2: and the gate is closed)
StatusNoTempoReal ==
    (Tick /\ pc' = "idle") =>
        (ultimoStatus' # ultimoStatus <=>
            /\ rev = "V2" => ~cancelaAberta
            /\ VencidoReal(rev, TempoReal(millis, ultimoStatus), IntervaloStatus(rev)))

\* a call of loop() of V1 or V5 that runs the reset check resets exactly when
\* 24 h have really passed since the stamp of the last reset
ResetNoTempoReal ==
    (Tick /\ rev \in {"V1", "V5"} /\ pc' # "manual") =>
        IF TempoReal(millis, ultimoReset) >= IntervaloReset(rev)
        THEN ContadorDoTick = Zero32 /\ ultimoReset' = millis
        ELSE ContadorDoTick = contador /\ ultimoReset' = ultimoReset

(* C37: in every revision, also when millis() wraps from 2^32 - 1 to 0      *)
(* between the stamp and the test, the elapsed time a transit wait computes  *)
(* is the time that really passed, and a transit timeout, an idle status     *)
(* report and a 24 h reset happen exactly when their limit is really spent:  *)
(* none is premature and none is missed.                                     *)
C37_VoltaDoRelogio ==
    [][EsperaNoTempoReal /\ StatusNoTempoReal /\ ResetNoTempoReal]_vars

\* an entry wait stamped before the wrap has timed out after it
C37_TimeoutAposAVolta ==
    /\ pc = "aviso_entrada"
    /\ resultado = "timeout_entrada"
    /\ ~Cabe(tempoInicio)
    /\ Cabe(millis)

---------------------------------------------------------------------------
(* Range of the counter *)

\* C38: in V2 and V3, whatever the EEPROM cell holds at power-up, the number
\* printed on a ticket is at least 1 and, when loop() is done with a transit
\* that ended in SUCCESS, the counter is greater than it was at admission
C38_FaixaDoContador ==
    rev \in {"V2", "V3"} =>
        /\ numTicket # Nenhum => numTicket # Zero32
        /\ (pc = "idle" /\ resultado = "sucesso") => Menor32(contadorAdm, contador)

---------------------------------------------------------------------------
(* The failure flags of V4 *)

\* V4: the flags <<timeoutEntradaOcorrido, timeoutSaidaOcorrido>> when the two
\* waits have returned, given where the transit was decided: the entry wait sets
\* the first on its timeout and the exit wait then returns at once, leaving the
\* second as it was; the exit wait sets the second on its timeout and on a fraud;
\* a detected exit sets neither
FlagsAoFimDasFases ==
    CASE pc = "aviso_entrada" -> << TRUE, timeoutSaidaOcorrido >>
      [] pc \in {"aviso_saida", "fraude"} -> << timeoutEntradaOcorrido, TRUE >>
      [] OTHER -> << timeoutEntradaOcorrido, timeoutSaidaOcorrido >>

(* C39: in V4, both failure flags are false whenever control is in the main  *)
(* loop, and when the two waits of a transit have returned at least one of   *)
(* them is set if and only if the transit did not end in SUCCESS; the tail   *)
(* of loop() takes its failure branch exactly then, so a transit that ended  *)
(* in SUCCESS keeps its increment.                                           *)
C39_FlagsDeFalha ==
    [][rev = "V4" =>
         /\ pc = "idle" => ~timeoutEntradaOcorrido /\ ~timeoutSaidaOcorrido
         /\ pc' = "idle" => ~timeoutEntradaOcorrido' /\ ~timeoutSaidaOcorrido'
         /\ (pc \in Decididos /\ pc' = "idle") =>
               LET f == FlagsAoFimDasFases
               IN  /\ (f[1] \/ f[2]) <=> resultado # "sucesso"
                   /\ (f[1] \/ f[2]) <=> numFalha' = numTicket
                   /\ resultado = "sucesso" =>
                         contador' = contador /\ numSucesso' = numTicket]_vars

\* V4 is back in the main loop after an exit timeout, the flags cleared and the
\* ticket recorded as failed
C39_FlagsLimposAposFalha ==
    /\ rev = "V4"
    /\ pc = "idle"
    /\ resultado = "timeout_saida"
    /\ numFalha = numTicket
    /\ ~timeoutEntradaOcorrido
    /\ ~timeoutSaidaOcorrido

====
